---------------------------- MODULE Spec2Model ----------------------------
(***************************************************************************)
(* The vector store of code_index (src/code_index/store.py): an in-memory  *)
(* pair (records, embeddings) of one VectorStore instance and the two      *)
(* backing files vectors/meta.json and vectors/embeddings.pt.              *)
(*                                                                         *)
(* Python's None is the empty sequence <<>> and a present value x is the   *)
(* one-element sequence <<x>>.  Sequences are 1-based here and 0-based in  *)
(* the code.  A matrix is the sequence of its rows, a row the sequence of  *)
(* its components.                                                         *)
(***************************************************************************)
EXTENDS Integers, Sequences, FiniteSets, TLC

VARIABLES
    records,          \* self._records:    None | list of metadata dicts
    embeddings,       \* self._embeddings: None | float32 matrix
    dimension,        \* self._dimension:  None | int
    meta_file,        \* vectors/meta.json:     absent | payload
    embeddings_file,  \* vectors/embeddings.pt: absent | float32 matrix
    last,             \* the last call made, on the store or of a function of the
                      \* package, and the state it started in
    faults,           \* how many calls a failing file operation or an interruption ended
    topk_ties,        \* the order torch.topk of this host gives to equal scores
    gone,             \* machine with search: the paths a completed delete_by_paths
                      \* named and no insert has brought back
    repo              \* machine with the indexer: the repository's working tree, the
                      \* paths git tracks, the index directory's config.json, and how
                      \* often the repository was changed and the indexer called

vars == <<records, embeddings, dimension, meta_file, embeddings_file, last, faults,
          topk_ties, gone, repo>>

None == <<>>
Some(x) == <<x>>
Get(opt) == opt[1]

(***************************************************************************)
(* Bounds of the model.                                                    *)
(***************************************************************************)
MaxRows == 3
MaxBatch == 2
MaxFaults == 1

(***************************************************************************)
(* Numbers.  A Python float (a double) is an integer count of half units   *)
(* in the last place of float32; the float32 values are the even counts.   *)
(* torch.tensor(..., dtype=torch.float32) rounds to the nearest float32,   *)
(* a tie going to the value whose last mantissa bit is 0.                  *)
(***************************************************************************)
ToFloat32(x) ==
    LET q == x \div 2
    IN  IF x % 2 = 0 THEN x
        ELSE IF q % 2 = 0 THEN 2 * q ELSE 2 * (q + 1)

(***************************************************************************)
(* The VectorRecords the callers insert.  Distinct inputs differ both in   *)
(* their metadata and in their float32 row, so a row tells which metadata  *)
(* it was inserted with.  Dimensions 1 and 2 occur.  Every embedding is a  *)
(* list of floats with at least one component: for such input the tensor   *)
(* of a batch is 2-D whenever it has a shape (the "embeddings must be 2D"  *)
(* branch of insert is not taken), and numel() == 0 means "no rows".  An   *)
(* embedding of length 0 is not among the inputs.                          *)
(***************************************************************************)
VectorRecord(e, p, s, t, h) ==
    [embedding |-> e, path |-> p, line_start |-> s, line_end |-> t, file_hash |-> h]

VectorRecords ==
    { VectorRecord(<<2, 0>>, "a.py", 1, 2, "hash-a"),
      VectorRecord(<<0, 2>>, "a.py", 3, 4, "hash-a"),
      VectorRecord(<<3, 1>>, "b.py", 1, 2, "hash-b"),
      VectorRecord(<<2>>,    "c.py", 1, 1, "hash-c"),
      VectorRecord(<<3>>,    "b.py", 3, 4, "hash-b") }

Paths == {"a.py", "b.py", "c.py"}

Batches == UNION { [1..n -> VectorRecords] : n \in 0..MaxBatch }

(***************************************************************************)
(* Tensors.                                                                *)
(***************************************************************************)
\* torch.tensor(nested list): a list of rows of unequal lengths has no shape.
IsRagged(batch) == \E i, j \in 1..Len(batch) : Len(batch[i].embedding) # Len(batch[j].embedding)

\* torch.tensor([record.embedding for record in batch], dtype=torch.float32)
TensorOf(batch) ==
    [i \in 1..Len(batch) |->
        [c \in 1..Len(batch[i].embedding) |-> ToFloat32(batch[i].embedding[c])]]

\* tensor.shape[0], tensor.shape[1] and tensor.numel() of a matrix with rows
Shape0(m) == Len(m)
Shape1(m) == Len(m[1])
Numel(m) == IF Len(m) = 0 THEN 0 ELSE Len(m) * Len(m[1])

\* Seeded fault: the new rows are put first.
CatReversed(a, b) == b \o a

\* torch.cat([a, b], dim=0)
Cat(a, b) == a \o b

\* Seeded fault: the leading rows, as many as keep_indices has.
IndexRowsLeading(m, keep_indices) == [i \in 1..Len(keep_indices) |-> m[i]]

\* tensor[torch.tensor(keep_indices)]: the rows at keep_indices, in that order
IndexRows(m, keep_indices) == [i \in 1..Len(keep_indices) |-> m[keep_indices[i]]]

\* Indexing a tensor with a row index it does not have raises IndexError.
InRange(m, keep_indices) == \A i \in 1..Len(keep_indices) : keep_indices[i] <= Shape0(m)

\* tensor.to(dtype=torch.float32)
AsFloat32(m) == [i \in 1..Len(m) |-> [c \in 1..Len(m[i]) |-> ToFloat32(m[i][c])]]

\* The metadata dict insert stores for a VectorRecord (the embedding is not in it).
MetaOf(r) ==
    [path |-> r.path, line_start |-> r.line_start,
     line_end |-> r.line_end, file_hash |-> r.file_hash]

MetasOf(batch) == [i \in 1..Len(batch) |-> MetaOf(batch[i])]

(***************************************************************************)
(* The store as a value: the instance's three fields and the two files.    *)
(***************************************************************************)
Store(r, e, d, mf, ef) ==
    [records |-> r, embeddings |-> e, dimension |-> d,
     meta_file |-> mf, embeddings_file |-> ef]

\* What a call leaves: the store, "ok" or the exception raised, the value
\* returned, and the files it wrote or removed.
Outcome(st, result, ret) == [st |-> st, result |-> result, ret |-> ret, writes |-> {}]

Wrote(out, files) == [out EXCEPT !.writes = files]

\* The payload _save writes to meta.json.
Payload(st) == [version |-> 1, dimension |-> st.dimension, records |-> Get(st.records)]

\* "embeddings is None or embeddings.numel() == 0"
NoEmbeddings(e) == e = None \/ Numel(Get(e)) = 0

(***************************************************************************)
(* VectorStore._load                                                       *)
(***************************************************************************)
Load(st) ==
    IF st.records # None THEN Outcome(st, "ok", 0)
    ELSE
    LET hasMeta  == st.meta_file # None
        meta     == Get(st.meta_file)
        recs     == IF hasMeta THEN meta.records ELSE <<>>
        metaDim  == IF hasMeta THEN meta.dimension ELSE None
        emb      == IF st.embeddings_file # None
                    THEN Some(AsFloat32(Get(st.embeddings_file))) ELSE None
        dim      == IF emb # None /\ metaDim = None /\ Numel(Get(emb)) > 0
                    THEN Some(Shape1(Get(emb))) ELSE metaDim
    IN  IF emb # None /\ recs # <<>> /\ Shape0(Get(emb)) # Len(recs)
        THEN Outcome(st, "embeddings/meta length mismatch", 0)
        ELSE Outcome([st EXCEPT !.records = Some(recs), !.embeddings = emb,
                                !.dimension = dim], "ok", 0)

(***************************************************************************)
(* VectorStore._save.  fault names where the save stops: "none" (it        *)
(* completes), "meta" (opening meta.json fails, nothing is written),       *)
(* "matrix" (meta.json is written, writing or removing the matrix file     *)
(* fails) or "interrupt" (the process stops between the two).              *)
(***************************************************************************)
\* Seeded fault: an empty matrix leaves the old matrix file in place.
SavedMatrixKept(st) ==
    IF NoEmbeddings(st.embeddings) THEN st.embeddings_file ELSE st.embeddings

\* Seeded fault: an empty matrix is written as a file of zero rows.
SavedMatrixOfZeroRows(st) ==
    IF NoEmbeddings(st.embeddings) THEN Some(<<>>) ELSE st.embeddings

\* The matrix file a completed save leaves: none when the matrix is empty
\* (an existing file is removed), the matrix otherwise.
SavedMatrix(st) ==
    IF NoEmbeddings(st.embeddings) THEN None ELSE st.embeddings

Save(st, fault) ==
    IF st.records = None THEN Outcome(st, "ok", 0)
    ELSE IF fault = "meta" THEN Outcome(st, "OSError", 0)
    ELSE
    LET s1 == [st EXCEPT !.meta_file = Some(Payload(st))]
    IN  IF fault = "matrix" THEN Wrote(Outcome(s1, "OSError", 0), {"meta"})
        ELSE IF fault = "interrupt" THEN Wrote(Outcome(s1, "interrupted", 0), {"meta"})
        ELSE Wrote(Outcome([s1 EXCEPT !.embeddings_file = SavedMatrix(s1)], "ok", 0),
                   IF NoEmbeddings(s1.embeddings) /\ s1.embeddings_file = None
                   THEN {"meta"} ELSE {"meta", "embeddings"})

(***************************************************************************)
(* VectorStore.insert                                                      *)
(***************************************************************************)
\* self._embeddings after the batch's tensor is appended
Appended(e, tensor) == IF NoEmbeddings(e) THEN Some(tensor) ELSE Some(Cat(Get(e), tensor))

\* self._records.extend(...)
Extended(recs, batch) == recs \o MetasOf(batch)

InsertOp(st, batch, fault) ==
    IF batch = <<>> THEN Outcome(st, "ok", 0)
    ELSE
    LET l == Load(st)
        s == l.st
    IN  IF l.result # "ok" THEN l
        ELSE IF IsRagged(batch) THEN Outcome(s, "ValueError", 0)
        ELSE
        LET tensor == TensorOf(batch)
            dim    == Shape1(tensor)
        IN  IF s.dimension # None /\ dim # Get(s.dimension)
            THEN Outcome(s, "embedding dimension mismatch", 0)
            ELSE
            LET s2 == [s EXCEPT !.dimension = Some(dim),
                                !.embeddings = Appended(s.embeddings, tensor),
                                !.records = Some(Extended(Get(s.records), batch))]
                sv == Save(s2, fault)
            IN  [sv EXCEPT !.ret = IF sv.result = "ok" THEN Len(batch) ELSE 0]

(***************************************************************************)
(* VectorStore.delete_by_paths                                             *)
(***************************************************************************)
\* Seeded fault: the scan stops at the first record to remove.
RECURSIVE KeepUntil(_, _, _)
KeepUntil(recs, remove, idx) ==
    IF idx > Len(recs) \/ recs[idx].path \in remove THEN <<>>
    ELSE <<idx>> \o KeepUntil(recs, remove, idx + 1)

KeepIndicesStopping(recs, remove) == KeepUntil(recs, remove, 1)

\* keep_indices: the positions of the records whose path is not in remove
RECURSIVE KeepFrom(_, _, _)
KeepFrom(recs, remove, idx) ==
    IF idx > Len(recs) THEN <<>>
    ELSE (IF recs[idx].path \in remove THEN <<>> ELSE <<idx>>)
         \o KeepFrom(recs, remove, idx + 1)

KeepIndices(recs, remove) == KeepFrom(recs, remove, 1)

\* Seeded fault: the leading records, as many as keep_indices has.
NewRecordsLeading(recs, keep_indices) == [i \in 1..Len(keep_indices) |-> recs[i]]

\* new_records: the records at keep_indices
NewRecords(recs, keep_indices) == [i \in 1..Len(keep_indices) |-> recs[keep_indices[i]]]

\* Seeded fault: the early return is missing.
NothingDeletedIgnored(deleted) == FALSE

\* Seeded fault: the dimension outlives the last record.
EmptiedKeepingDimension(s) == [s EXCEPT !.embeddings = None]

\* Seeded fault: the matrix outlives the last record.
EmptiedKeepingMatrix(s) == [s EXCEPT !.dimension = None]

\* "if deleted == 0: return 0"
NothingDeleted(deleted) == deleted = 0

\* The deletion empties the store: the matrix is freed, the dimension forgotten.
Emptied(s) == [s EXCEPT !.embeddings = None, !.dimension = None]

DeleteOp(st, paths, fault) ==
    LET l == Load(st)
        s == l.st
    IN  IF l.result # "ok" THEN l
        ELSE IF Get(s.records) = <<>> THEN Outcome(s, "ok", 0)
        ELSE
        LET recs         == Get(s.records)
            keep_indices == KeepIndices(recs, paths)
            new_records  == NewRecords(recs, keep_indices)
            deleted      == Len(recs) - Len(new_records)
            s2 == IF NoEmbeddings(s.embeddings) THEN s
                  ELSE IF keep_indices # <<>>
                       THEN [s EXCEPT !.embeddings =
                                 Some(IndexRows(Get(s.embeddings), keep_indices))]
                       ELSE Emptied(s)
            s3 == [s2 EXCEPT !.records = Some(new_records)]
            sv == Save(s3, fault)
        IN  IF NothingDeleted(deleted) THEN Outcome(s, "ok", 0)
            ELSE IF ~NoEmbeddings(s.embeddings)
                    /\ ~InRange(Get(s.embeddings), keep_indices)
                 THEN Outcome(s, "IndexError", 0)
            ELSE [sv EXCEPT !.ret = IF sv.result = "ok" THEN deleted ELSE 0]

(***************************************************************************)
(* VectorStore.drop.  fault: "none", "matrix" (removing embeddings.pt      *)
(* fails) or "meta" (embeddings.pt is removed, removing meta.json fails).  *)
(***************************************************************************)
\* Seeded fault: the files are removed, the instance keeps what it holds.
DropOpKeeping(st, fault) ==
    Wrote(Outcome([st EXCEPT !.embeddings_file = None, !.meta_file = None], "ok", 0),
          {"meta", "embeddings"})

DropOp(st, fault) ==
    IF fault = "matrix" /\ st.embeddings_file # None THEN Outcome(st, "OSError", 0)
    ELSE
    LET s1 == [st EXCEPT !.embeddings_file = None]
        w1 == IF st.embeddings_file # None THEN {"embeddings"} ELSE {}
        w2 == IF st.meta_file # None THEN {"meta"} ELSE {}
    IN  IF fault = "meta" /\ s1.meta_file # None THEN Wrote(Outcome(s1, "OSError", 0), w1)
        ELSE Wrote(Outcome([s1 EXCEPT !.meta_file = None, !.embeddings = None,
                                      !.records = None, !.dimension = None], "ok", 0),
                   w1 \cup w2)

(***************************************************************************)
(* VectorStore.__init__: a fresh instance on the same directory.           *)
(***************************************************************************)
Fresh(st) == [st EXCEPT !.embeddings = None, !.records = None, !.dimension = None]

(***************************************************************************)
(* resolve_device (src/code_index/device.py) on a host without CUDA and    *)
(* without MPS, and the VectorConfig the store is constructed with.        *)
(***************************************************************************)
Host == [cuda |-> FALSE, mps |-> FALSE]

Config ==
    [device |-> "cpu", metric |-> "ip", search_mode |-> "exact",
     sample_rate |-> <<1, 5>>, max_vram_mb |-> None]

\* str.lower() on the strings that occur.
Lower(s) ==
    CASE s = "L2" -> "l2"
      [] s = "Approx" -> "approx"
      [] s \in {"Auto", "AUTO"} -> "auto"
      [] s \in {"Cuda", "CUDA"} -> "cuda"
      [] s = "MPS" -> "mps"
      [] s = "CPU" -> "cpu"
      [] OTHER -> s

\* "x or default" and "x if x is not None else default"
Or(x, default) == IF x = None \/ Get(x) = "" THEN default ELSE Get(x)
OrElse(x, default) == IF x = None THEN default ELSE Get(x)

Min(a, b) == IF a <= b THEN a ELSE b
Max(a, b) == IF a >= b THEN a ELSE b

\* Seeded fault: a device that is asked for by name and not available is an error.
ResolveDeviceStrict(preferred, host) ==
    LET choice == Lower(Or(preferred, "auto"))
    IN  IF choice = "auto"
        THEN Some(IF host.cuda THEN "cuda" ELSE IF host.mps THEN "mps" ELSE "cpu")
        ELSE IF choice = "cuda" THEN (IF host.cuda THEN Some("cuda") ELSE None)
        ELSE IF choice = "mps" THEN (IF host.mps THEN Some("mps") ELSE None)
        ELSE IF choice = "cpu" THEN Some("cpu")
        ELSE None

\* The device, or None when resolve_device raises ValueError.
ResolveDevice(preferred, host) ==
    LET choice == Lower(Or(preferred, "auto"))
    IN  IF choice = "auto"
        THEN Some(IF host.cuda THEN "cuda" ELSE IF host.mps THEN "mps" ELSE "cpu")
        ELSE IF choice = "cuda" THEN Some(IF host.cuda THEN "cuda" ELSE "cpu")
        ELSE IF choice = "mps" THEN Some(IF host.mps THEN "mps" ELSE "cpu")
        ELSE IF choice = "cpu" THEN Some("cpu")
        ELSE None

(***************************************************************************)
(* VectorStore._sample_indices and VectorStore._chunk_size.  A sample rate *)
(* is the fraction <<numerator, denominator>> with a positive denominator; *)
(* int(x) truncates towards zero.  Row indices are 0-based as in the code. *)
(***************************************************************************)
Trunc(a, b) == IF a >= 0 THEN a \div b ELSE -((-a) \div b)

\* Seeded fault: a rate above 1 is let through.
InUnitOpen(rate) == 0 < rate[1]

\* "0 < sample_rate <= 1"
InUnit(rate) == 0 < rate[1] /\ rate[1] <= rate[2]

\* list(range(0, total, step))
Range(total, step) == [i \in 1..((total + step - 1) \div step) |-> (i - 1) * step]

\* Seeded fault: the stride is rounded up instead of down.
SampleIndicesCeil(total, sample_rate) ==
    IF total <= 0 THEN <<>>
    ELSE IF sample_rate[1] >= sample_rate[2] THEN Range(total, 1)
    ELSE Range(total, Max((sample_rate[2] + sample_rate[1] - 1) \div sample_rate[1], 1))

\* Seeded fault: the stride is 1 / sample_rate rounded to the nearest integer.
SampleIndicesNearest(total, sample_rate) ==
    IF total <= 0 THEN <<>>
    ELSE IF sample_rate[1] >= sample_rate[2] THEN Range(total, 1)
    ELSE Range(total, Max((2 * sample_rate[2] + sample_rate[1]) \div (2 * sample_rate[1]), 1))

SampleIndices(total, sample_rate) ==
    IF total <= 0 THEN <<>>
    ELSE IF sample_rate[1] >= sample_rate[2] THEN Range(total, 1)
    ELSE Range(total, Max(Trunc(sample_rate[2], sample_rate[1]), 1))

ChunkSize(total, dim, max_vram_mb) ==
    IF total <= 0 THEN 0
    ELSE IF max_vram_mb = None THEN total
    ELSE
    LET bytes_per_vector == dim * 4
        budget           == Get(max_vram_mb) * 1024 * 1024
        \* budget / (bytes_per_vector * 1.2), with 1.2 = 6 / 5
        max_vectors      == Max(Trunc(budget * 5, bytes_per_vector * 6), 1)
    IN  IF bytes_per_vector <= 0 THEN total ELSE Min(total, max_vectors)

(***************************************************************************)
(* Scoring.  Scores are computed exactly; the rounding of float32          *)
(* arithmetic is not modelled.                                             *)
(***************************************************************************)
RECURSIVE SumTo(_, _)
SumTo(f, n) == IF n = 0 THEN 0 ELSE SumTo(f, n - 1) + f[n]

\* chunk @ query, for one row
Dot(row, query) == SumTo([c \in 1..Len(row) |-> row[c] * query[c]], Len(row))

\* -(diff * diff).sum(dim=1), for one row
NegSquaredDistance(row, query) ==
    -SumTo([c \in 1..Len(row) |-> (row[c] - query[c]) * (row[c] - query[c])], Len(row))

\* Seeded fault: the squared distance itself.
ScoreUnsigned(metric, row, query) ==
    IF metric = "ip" THEN Dot(row, query) ELSE -NegSquaredDistance(row, query)

Score(metric, row, query) ==
    IF metric = "ip" THEN Dot(row, query) ELSE NegSquaredDistance(row, query)

(***************************************************************************)
(* Ranking.  An entry is <<score, index>>.  sorted(..., reverse=True) is   *)
(* stable: entries of equal score keep their order.  torch.topk leaves the *)
(* order (and the choice) among equal scores open; a build settles it one  *)
(* way, TieOrders names the two ways modelled: the lower index first, or   *)
(* the higher index first.                                                 *)
(***************************************************************************)
TieOrders == {"lower", "higher"}

\* x put behind every entry of the descending list that scores at least x.
InsertDesc(sorted, x) ==
    LET keep == Cardinality({i \in 1..Len(sorted) : sorted[i][1] >= x[1]})
    IN  SubSeq(sorted, 1, keep) \o <<x>> \o SubSeq(sorted, keep + 1, Len(sorted))

RECURSIVE SortedDesc(_)
SortedDesc(s) ==
    IF s = <<>> THEN <<>>
    ELSE InsertDesc(SortedDesc(SubSeq(s, 1, Len(s) - 1)), s[Len(s)])

Reversed(s) == [i \in 1..Len(s) |-> s[Len(s) + 1 - i]]

\* s[:n] for n >= 0
Prefix(s, n) == SubSeq(s, 1, Min(n, Len(s)))

\* Seeded fault: the first k entries instead of the k best.
TopKLeading(scores, k, ties) ==
    Prefix([i \in 1..Len(scores) |-> <<scores[i], i - 1>>], k)

\* torch.topk(scores, k=k): the k best <<score, position>>, best first
TopK(scores, k, ties) ==
    LET entries == [i \in 1..Len(scores) |-> <<scores[i], i - 1>>]
    IN  Prefix(SortedDesc(IF ties = "lower" THEN entries ELSE Reversed(entries)), k)

\* Seeded fault: the new hits are put behind the running list unsorted.
MergedUnsorted(best, hits, top_k) == Prefix(best \o hits, top_k)

\* Seeded fault: the running list is not cut back to top_k.
MergedUncut(best, hits, top_k) == SortedDesc(best \o hits)

\* best = sorted(best + hits, key=score, reverse=True)[:top_k]
Merged(best, hits, top_k) == Prefix(SortedDesc(best \o hits), top_k)

\* Seeded fault: a chunk reaches one candidate into the next.
ChunkIndicesOverlapping(job, start) ==
    SubSeq(job.indices, start + 1, Min(start + job.chunk_size + 1, Len(job.indices)))

\* chunk_indices = indices[start : start + chunk_size]
ChunkIndices(job, start) ==
    SubSeq(job.indices, start + 1, Min(start + job.chunk_size, Len(job.indices)))

\* The body of the loop for the chunk that starts at position start: `best`
\* when the pass ends.
Pass(job, start, best) ==
    LET chunk_indices == ChunkIndices(job, start)
        scores == [i \in 1..Len(chunk_indices) |->
                      Score(job.metric, job.matrix[chunk_indices[i] + 1], job.query)]
        k      == Min(job.top_k, Len(scores))
        picked == TopK(scores, k, job.ties)
        hits   == [i \in 1..k |-> <<picked[i][1], chunk_indices[picked[i][2] + 1]>>]
    IN  IF k = 0 THEN best ELSE Merged(best, hits, job.top_k)

\* The loop over the chunks of indices, from position start on.
RECURSIVE Scan(_, _, _)
Scan(job, start, best) ==
    IF start >= Len(job.indices) THEN best
    ELSE Scan(job, start + job.chunk_size, Pass(job, start, best))

\* The rows on the device once the right side of
\* "chunk = self._embeddings[chunk_indices].to(resolved_device)" is evaluated:
\* the new tensor's, and those of the tensor the name `chunk` is still bound
\* to (held: the chunk of the pass before; none in the first pass), which is
\* released only when the name is bound anew.
Held(held, chunk_indices) == Len(held) + Len(chunk_indices)

\* The passes of the loop one after another: the chunk of each, the rows on the
\* device at its peak, and `best` at its end.
RECURSIVE Passes(_, _, _, _)
Passes(job, start, best, held) ==
    IF start >= Len(job.indices) THEN <<>>
    ELSE
    LET chunk_indices == ChunkIndices(job, start)
        next          == Pass(job, start, best)
    IN  << [chunk_indices |-> chunk_indices, resident |-> Held(held, chunk_indices),
            best |-> next] >>
        \o Passes(job, start + job.chunk_size, next, chunk_indices)

\* Seeded fault: the record of the position in the result list.
ResultAtPosition(recs, hit, pos) ==
    [path |-> recs[pos].path, line_start |-> recs[pos].line_start,
     line_end |-> recs[pos].line_end, score |-> hit[1]]

\* One result dict: the record at the hit's index, with the hit's score.
ResultOf(recs, hit, pos) ==
    [path |-> recs[hit[2] + 1].path, line_start |-> recs[hit[2] + 1].line_start,
     line_end |-> recs[hit[2] + 1].line_end, score |-> hit[1]]

(***************************************************************************)
(* VectorStore.search.  A query is the argument `embedding` as a tensor:   *)
(* its number of dimensions and its values.  ties is the host's order      *)
(* among equal scores.  Beside the outcome, a search leaves a trace of its *)
(* locals: the candidate indices, the chunk size, the final list `best`,   *)
(* the number of rows it scored and the passes of its loop.                *)
(***************************************************************************)
SearchArgs(q, k, dev, mode, rate, vram, metric) ==
    [embedding |-> q, top_k |-> k, device |-> dev, search_mode |-> mode,
     approx_sample_rate |-> rate, max_vram_mb |-> vram, metric |-> metric]

Trace(indices, chunk_size, best, scored, device, passes) ==
    [indices |-> indices, chunk_size |-> chunk_size, best |-> best,
     scored |-> scored, device |-> device, passes |-> passes]

NoTrace ==
    [indices |-> <<>>, chunk_size |-> 0, best |-> <<>>, scored |-> 0, device |-> None,
     passes |-> <<>>]

\* Seeded fault: the search forgets what the instance holds.
HitsForgetting(st, result, ret, trace) ==
    Outcome(Emptied([st EXCEPT !.records = Some(<<>>)]), result, ret) @@ trace

\* Seeded fault: the search removes the matrix file.
HitsRemoving(st, result, ret, trace) ==
    Outcome([st EXCEPT !.embeddings_file = None], result, ret) @@ trace

Hits(st, result, ret, trace) == Outcome(st, result, ret) @@ trace

\* "not self._records or self._embeddings is None or self._embeddings.numel() == 0"
NothingStored(recs, e) == recs = <<>> \/ NoEmbeddings(e)

SearchOp(st, args, config, ties) ==
    LET l == Load(st)
        s == l.st
    IN  IF l.result # "ok" THEN Hits(s, l.result, <<>>, NoTrace)
        ELSE IF NothingStored(Get(s.records), s.embeddings) THEN Hits(s, "ok", <<>>, NoTrace)
        ELSE
    LET recs        == Get(s.records)
        matrix      == Get(s.embeddings)
        query       == [c \in 1..Len(args.embedding.data) |-> ToFloat32(args.embedding.data[c])]
        dim         == Shape1(matrix)
        metric      == Lower(Or(args.metric, config.metric))
        search_mode == Lower(Or(args.search_mode, config.search_mode))
        sample_rate == OrElse(args.approx_sample_rate, config.sample_rate)
        indices     == IF search_mode = "approx"
                       THEN SampleIndices(Len(recs), sample_rate)
                       ELSE Range(Len(recs), 1)
        device      == ResolveDevice(Some(Or(args.device, config.device)), Host)
        max_vram_mb == IF args.max_vram_mb # None THEN args.max_vram_mb
                       ELSE config.max_vram_mb
        chunk_size  == ChunkSize(Len(indices), dim, max_vram_mb)
        job         == [matrix |-> matrix, query |-> query, metric |-> metric,
                        indices |-> indices, chunk_size |-> chunk_size,
                        top_k |-> args.top_k, ties |-> ties]
        best        == Scan(job, 0, <<>>)
        passes      == Passes(job, 0, <<>>, <<>>)
    IN  IF args.embedding.ndim # 1 THEN Hits(s, "query embedding must be 1D", <<>>, NoTrace)
        ELSE IF Len(query) # dim
        THEN Hits(s, "query embedding dimension mismatch", <<>>, NoTrace)
        ELSE IF metric \notin {"ip", "l2"}
        THEN Hits(s, "metric must be ip or l2", <<>>, NoTrace)
        ELSE IF search_mode \notin {"exact", "approx"}
        THEN Hits(s, "search_mode must be exact or approx", <<>>, NoTrace)
        ELSE IF search_mode = "approx" /\ ~InUnit(sample_rate)
        THEN Hits(s, "approx.sample_rate must be in (0, 1]", <<>>, NoTrace)
        ELSE IF indices = <<>> THEN Hits(s, "ok", <<>>, NoTrace)
        ELSE IF device = None
        THEN Hits(s, "device must be one of auto/cuda/mps/cpu", <<>>, NoTrace)
        ELSE IF chunk_size <= 0
        THEN Hits(s, "ok", <<>>, Trace(indices, chunk_size, <<>>, 0, device, <<>>))
        \* self._embeddings[chunk_indices] with an index the matrix does not have
        ELSE IF \E i \in 1..Len(indices) : indices[i] >= Shape0(matrix)
        THEN Hits(s, "IndexError", <<>>, Trace(indices, chunk_size, <<>>, 0, device, <<>>))
        \* torch.topk(scores, k) with a negative k, in the first chunk
        ELSE IF args.top_k < 0
        THEN Hits(s, "RuntimeError", <<>>, Trace(indices, chunk_size, <<>>, chunk_size, device, <<>>))
        ELSE Hits(s, "ok", [i \in 1..Len(best) |-> ResultOf(recs, best[i], i)],
                  Trace(indices, chunk_size, best, Len(indices), device, passes))

(***************************************************************************)
(* The state machine: one store directory, one live instance at a time.    *)
(***************************************************************************)
Cur == Store(records, embeddings, dimension, meta_file, embeddings_file)

Call(op, batch, paths, fault, out) ==
    [op |-> op, batch |-> batch, paths |-> paths, fault |-> fault,
     result |-> out.result, ret |-> out.ret, writes |-> out.writes, pre |-> Cur,
     search |-> None]

\* The record of a search: its arguments and the trace of its locals as well,
\* and what the same search returned when this one repeats it.
SearchCall(args, out, prior) ==
    [Call("search", <<>>, {}, "none", out) EXCEPT
        !.search = Some([args |-> args, indices |-> out.indices,
                         chunk_size |-> out.chunk_size, best |-> out.best,
                         scored |-> out.scored, device |-> out.device,
                         passes |-> out.passes, prior |-> prior])]

\* The process is interrupted: the instance is gone, the files stay.
Becomes(out) ==
    LET st == IF out.result = "interrupted" THEN Fresh(out.st) ELSE out.st
    IN  /\ records' = st.records
        /\ embeddings' = st.embeddings
        /\ dimension' = st.dimension
        /\ meta_file' = st.meta_file
        /\ embeddings_file' = st.embeddings_file

\* The number of records the instance holds, or will hold once it has loaded.
RecordCount(st) ==
    IF st.records # None THEN Len(Get(st.records))
    ELSE IF st.meta_file # None THEN Len(Get(st.meta_file).records) ELSE 0

\* The number of matrix rows the instance holds, or will hold once it has loaded.
RowCount(st) ==
    IF st.records # None
    THEN (IF st.embeddings # None THEN Shape0(Get(st.embeddings)) ELSE 0)
    ELSE IF st.embeddings_file # None THEN Shape0(Get(st.embeddings_file)) ELSE 0

EmptyStore == Store(None, None, None, None, None)

\* In the machines without the indexer there is no repository and no index
\* directory beside the store's.
NoRepo ==
    [tree |-> <<>>, tracked |-> <<>>, index_dir |-> FALSE, config |-> None,
     edits |-> 0, calls |-> 0]

Init ==
    /\ records = None
    /\ embeddings = None
    /\ dimension = None
    /\ meta_file = None
    /\ embeddings_file = None
    /\ last = [op |-> "new", batch |-> <<>>, paths |-> {}, fault |-> "none",
               result |-> "ok", ret |-> 0, writes |-> {}, pre |-> EmptyStore,
               search |-> None]
    /\ faults = 0
    /\ topk_ties \in TieOrders
    /\ gone = {}
    /\ repo = NoRepo

\* The environment: file operations fail or the process stops at most MaxFaults times.
Environment(fault) ==
    IF fault = "none" THEN faults' = faults
    ELSE faults < MaxFaults /\ faults' = faults + 1

InsertCall(batch, fault) ==
    /\ Environment(fault)
    /\ RecordCount(Cur) + Len(batch) <= MaxRows
    /\ RowCount(Cur) + Len(batch) <= MaxRows
    /\ LET out == InsertOp(Cur, batch, fault)
       IN  /\ Becomes(out)
           /\ last' = Call("insert", batch, {}, fault, out)
           /\ UNCHANGED <<topk_ties, repo>>

DeleteCall(paths, fault) ==
    LET out == DeleteOp(Cur, paths, fault)
    IN  /\ Environment(fault)
        /\ Becomes(out)
        /\ last' = Call("delete_by_paths", <<>>, paths, fault, out)
        /\ UNCHANGED <<topk_ties, repo>>

\* In the machines without search the paths deleted are not kept track of.
InsertWith(batch, fault) == InsertCall(batch, fault) /\ gone' = gone

DeleteWith(paths, fault) == DeleteCall(paths, fault) /\ gone' = gone

DropWith(fault) ==
    LET out == DropOp(Cur, fault)
    IN  /\ Environment(fault)
        /\ Becomes(out)
        /\ last' = Call("drop", <<>>, {}, fault, out)
        /\ UNCHANGED <<topk_ties, gone, repo>>

Insert == \E batch \in Batches : InsertWith(batch, "none")

DeleteByPaths == \E paths \in SUBSET Paths : DeleteWith(paths, "none")

Drop == DropWith("none")

NewInstance ==
    /\ Becomes(Outcome(Fresh(Cur), "ok", 0))
    /\ last' = Call("new", <<>>, {}, "none", Outcome(Cur, "ok", 0))
    /\ UNCHANGED <<faults, topk_ties, gone, repo>>

Next == Insert \/ DeleteByPaths \/ Drop \/ NewInstance

Spec == Init /\ [][Next]_vars

(***************************************************************************)
(* The same machine with failing file operations and interruptions.        *)
(***************************************************************************)
\* A file operation raises OSError and the instance lives on.
InsertFails == \E batch \in Batches, fault \in {"meta", "matrix"} : InsertWith(batch, fault)

DeleteFails == \E paths \in SUBSET Paths, fault \in {"meta", "matrix"} : DeleteWith(paths, fault)

DropFails == \E fault \in {"meta", "matrix"} : DropWith(fault)

\* The process is interrupted between the two writes of _save.
InsertInterrupted == \E batch \in Batches : InsertWith(batch, "interrupt")

DeleteInterrupted == \E paths \in SUBSET Paths : DeleteWith(paths, "interrupt")

NextFault ==
    \/ Next
    \/ InsertFails \/ DeleteFails \/ DropFails
    \/ InsertInterrupted \/ DeleteInterrupted

SpecFault == Init /\ [][NextFault]_vars

(***************************************************************************)
(* The machine with search.  The callers insert one record at a time here, *)
(* and take the result of a call before they make the next one; a search   *)
(* may be repeated first.                                                  *)
(***************************************************************************)
MaxTopK == 2

Queries ==
    { [ndim |-> 1, data |-> <<3, 1>>],
      [ndim |-> 1, data |-> <<2, 2>>],
      [ndim |-> 1, data |-> <<2>>],
      [ndim |-> 2, data |-> <<2, 0>>] }

BaseArgs == SearchArgs([ndim |-> 1, data |-> <<3, 1>>], 1, None, None, None, None, None)

SearchInputs ==
    { SearchArgs(q, k, None, mr[1], mr[2], vram, metric) :
        q \in {q \in Queries : q.ndim = 1},
        k \in {1, MaxTopK},
        mr \in { <<None, None>>, <<Some("Approx"), Some(<<1, 2>>)>> },
        vram \in {None, Some(0)},
        metric \in {None, Some("L2")} }
    \cup { [BaseArgs EXCEPT !.embedding = q, !.metric = m] :
             q \in Queries, m \in {None, Some("cosine")} }
    \cup { [BaseArgs EXCEPT !.top_k = k] : k \in {-1, 0, MaxTopK + 1} }
    \cup { [BaseArgs EXCEPT !.device = Some(d)] : d \in {"tpu", "cuda", ""} }
    \cup { [BaseArgs EXCEPT !.search_mode = Some("approx"), !.approx_sample_rate = r] :
             r \in {None, Some(<<0, 1>>), Some(<<3, 2>>), Some(<<2, 3>>), Some(<<1, 1>>)} }
    \cup { [BaseArgs EXCEPT !.search_mode = Some(m), !.approx_sample_rate = Some(<<0, 1>>)] :
             m \in {"exact", "fuzzy"} }
    \cup { [BaseArgs EXCEPT !.max_vram_mb = Some(1), !.top_k = k] : k \in {1, MaxTopK} }

\* The memory budgets among them: none, one that forces chunks of one row, and one
\* that holds every row.
Budgets == {None, Some(0), Some(1)}

SearchWith(args, prior) ==
    \E out \in {SearchOp(Cur, args, Config, topk_ties)} :
        /\ Becomes(out)
        /\ last' = SearchCall(args, out, prior)
        /\ UNCHANGED <<faults, topk_ties, gone, repo>>

InsertOne ==
    \E r \in VectorRecords :
        /\ InsertCall(<<r>>, "none")
        /\ gone' = IF last'.result = "ok" THEN gone \ {r.path} ELSE gone

DeletePaths ==
    \E paths \in SUBSET Paths :
        /\ DeleteCall(paths, "none")
        /\ gone' = IF last'.result = "ok" THEN gone \cup paths ELSE gone

Search == \E args \in SearchInputs : SearchWith(args, None)

\* The same search once more, nothing in between.
SearchAgain ==
    /\ last.op = "search"
    /\ SearchWith(Get(last.search).args, Some([result |-> last.result, ret |-> last.ret]))

\* The caller holds no result it has yet to take.
Idle == last.op \in {"new", "resume"}

\* The caller takes the result of its call.
Resume ==
    /\ ~Idle
    /\ last' = Call("resume", <<>>, {}, "none", Outcome(Cur, "ok", 0))
    /\ UNCHANGED <<records, embeddings, dimension, meta_file, embeddings_file,
                   faults, topk_ties, gone, repo>>

NextSearch ==
    \/ Idle /\ InsertOne
    \/ Idle /\ DeletePaths
    \/ Idle /\ Drop
    \/ Idle /\ NewInstance
    \/ Idle /\ Search
    \/ SearchAgain
    \/ Resume

SpecSearch == Init /\ [][NextSearch]_vars

(***************************************************************************)
(* The machine of sampled searches: a store of up to MaxSampled records of *)
(* one dimension, searched in approx mode at every rate p / q with         *)
(* 0 <= p <= q + 1 and q <= MaxDen.  A rate is the pair <<p, q>>.          *)
(***************************************************************************)
MaxSampled == 5
MaxDen == 4

SampledRecords == {r \in VectorRecords : Len(r.embedding) = 2}

SampleRates == {r \in (0..(MaxDen + 1)) \X (1..MaxDen) : r[1] <= r[2] + 1}

SampleInputs ==
    { SearchArgs([ndim |-> 1, data |-> <<3, 1>>], k, None, Some("approx"), Some(rate),
                 None, metric) :
        k \in {1, MaxSampled}, rate \in SampleRates,
        metric \in {None, Some("L2")} }

InsertSampled ==
    \E r \in SampledRecords :
        /\ RecordCount(Cur) < MaxSampled
        /\ LET out == InsertOp(Cur, <<r>>, "none")
           IN  /\ Becomes(out)
               /\ last' = Call("insert", <<r>>, {}, "none", out)
               /\ UNCHANGED <<faults, topk_ties, gone, repo>>

SearchSampled == \E args \in SampleInputs : SearchWith(args, None)

NextSample ==
    \/ Idle /\ InsertSampled
    \/ Idle /\ SearchSampled
    \/ Resume

SpecSample == Init /\ [][NextSample]_vars

(***************************************************************************)
(* Loading.  A new instance on a directory that holds any pair of files:   *)
(* a meta.json that _save writes for up to MaxBatch records, or none, and  *)
(* an embeddings.pt with up to MaxBatch float32 rows (zero rows included), *)
(* or none.  The two files need not come from the same save.               *)
(***************************************************************************)
StoredBatches == {b \in Batches : ~IsRagged(b)}

MetaFiles ==
    {None} \cup
    { Some([version |-> 1,
            dimension |-> IF b = <<>> THEN None ELSE Some(Len(b[1].embedding)),
            records |-> MetasOf(b)]) : b \in StoredBatches }

MatrixFiles == {None} \cup { Some(TensorOf(b)) : b \in StoredBatches }

InitLoad ==
    /\ records = None
    /\ embeddings = None
    /\ dimension = None
    /\ meta_file \in MetaFiles
    /\ embeddings_file \in MatrixFiles
    /\ last = [op |-> "new", batch |-> <<>>, paths |-> {}, fault |-> "none",
               result |-> "ok", ret |-> 0, writes |-> {}, pre |-> EmptyStore,
               search |-> None]
    /\ faults = 0
    /\ topk_ties = "lower"
    /\ gone = {}
    /\ repo = NoRepo

\* self._ensure_loaded(), the first step of search, delete_by_paths and of
\* insert with a batch.
EnsureLoaded ==
    LET out == Load(Cur)
    IN  /\ Becomes(out)
        /\ last' = Call("load", <<>>, {}, "none", out)
        /\ UNCHANGED <<faults, topk_ties, gone, repo>>

NextLoad == EnsureLoaded \/ NewInstance

SpecLoad == InitLoad /\ [][NextLoad]_vars

(***************************************************************************)
(* chunk_text (src/code_index/chunking.py).  A text is the sequence of its *)
(* characters; "x" stands for every character that ends no line.  Of the   *)
(* line boundaries of str.splitlines, "\n", "\r" and "\r\n" occur.         *)
(***************************************************************************)
MaxText == 5
MaxChunkLines == 3

Chars == {"x", "\n", "\r"}

Texts == UNION { [1..n -> Chars] : n \in 0..MaxText }

\* text.splitlines(keepends=True), from position i on; cur is the line begun.
RECURSIVE SplitFrom(_, _, _)
SplitFrom(text, i, cur) ==
    IF i > Len(text) THEN (IF cur = <<>> THEN <<>> ELSE <<cur>>)
    ELSE IF text[i] = "\r" /\ i < Len(text) /\ text[i + 1] = "\n"
    THEN <<cur \o <<"\r", "\n">>>> \o SplitFrom(text, i + 2, <<>>)
    ELSE IF text[i] \in {"\n", "\r"}
    THEN <<cur \o <<text[i]>>>> \o SplitFrom(text, i + 1, <<>>)
    ELSE SplitFrom(text, i + 1, cur \o <<text[i]>>)

SplitLines(text) == SplitFrom(text, 1, <<>>)

\* "".join(lines)
RECURSIVE Join(_)
Join(lines) == IF lines = <<>> THEN <<>> ELSE lines[1] \o Join(Tail(lines))

TextChunk(text, line_start, line_end) ==
    [text |-> text, line_start |-> line_start, line_end |-> line_end]

\* Seeded fault: the next chunk starts behind the one before, whatever the overlap.
NextStartBehind(end, overlap_lines) == end

\* "start = end - overlap_lines if overlap_lines else end"
NextStart(end, overlap_lines) == IF overlap_lines # 0 THEN end - overlap_lines ELSE end

\* The while loop, from the 0-based position start < len(lines) on.
RECURSIVE ChunksFrom(_, _, _, _)
ChunksFrom(lines, start, chunk_lines, overlap_lines) ==
    LET total == Len(lines)
        end   == Min(start + chunk_lines, total)
        chunk == TextChunk(Join(SubSeq(lines, start + 1, end)), start + 1, end)
    IN  IF end >= total THEN <<chunk>>
        ELSE <<chunk>> \o ChunksFrom(lines, NextStart(end, overlap_lines),
                                     chunk_lines, overlap_lines)

\* Seeded fault: the overlap is taken as it is given.
Unclamped(chunk_lines, overlap_lines) == overlap_lines

\* "if overlap_lines >= chunk_lines: overlap_lines = max(chunk_lines - 1, 0)"
Clamped(chunk_lines, overlap_lines) ==
    IF overlap_lines >= chunk_lines THEN Max(chunk_lines - 1, 0) ELSE overlap_lines

\* The list returned, or the ValueError raised.
ChunkText(text, chunk_lines, overlap_lines) ==
    IF chunk_lines <= 0 THEN [result |-> "chunk_lines must be positive", ret |-> <<>>]
    ELSE IF overlap_lines < 0 THEN [result |-> "overlap_lines must be >= 0", ret |-> <<>>]
    ELSE
    LET overlap == Clamped(chunk_lines, overlap_lines)
        lines   == SplitLines(text)
    IN  IF lines = <<>> THEN [result |-> "ok", ret |-> <<>>]
        ELSE [result |-> "ok", ret |-> ChunksFrom(lines, 0, chunk_lines, overlap)]

(***************************************************************************)
(* compute_incremental_plan (src/code_index/indexer.py).  The working tree *)
(* gives each path a state: no file, a text file with its content hash, or *)
(* a file that is_text_file takes for binary.  config.files maps the paths *)
(* indexed so far to the hash they were indexed with.  sha256_file is the  *)
(* content itself: different contents have different hashes.               *)
(***************************************************************************)
MaxTracked == 3

\* The paths, in the order sorted() gives them.
PathOrder == <<"a.py", "b.bin", "c.py">>

PlanPaths == {PathOrder[i] : i \in 1..Len(PathOrder)}

FileStates ==
    { [isfile |-> FALSE, text |-> FALSE, hash |-> "none"],
      [isfile |-> TRUE,  text |-> TRUE,  hash |-> "h1"],
      [isfile |-> TRUE,  text |-> TRUE,  hash |-> "h2"],
      [isfile |-> TRUE,  text |-> FALSE, hash |-> "h3"] }

Trees == [PlanPaths -> FileStates]

TrackedLists == UNION { [1..n -> PlanPaths] : n \in 0..MaxTracked }

IndexedFiles == UNION { [S -> {"h1"}] : S \in SUBSET PlanPaths }

\* sorted(set(paths))
SortedPaths(paths) == SelectSeq(PathOrder, LAMBDA p : p \in paths)

Elements(seq) == {seq[i] : i \in 1..Len(seq)}

\* Seeded fault: a file that is not text is skipped, indexed before or not.
PlanStepSkipping(plan, rel_path, tree, files) ==
    IF ~tree[rel_path].isfile THEN plan
    ELSE IF ~tree[rel_path].text
    THEN [plan EXCEPT !.skipped_binary = Append(@, rel_path)]
    ELSE IF rel_path \notin DOMAIN files \/ files[rel_path] # tree[rel_path].hash
    THEN [plan EXCEPT !.new_or_changed = Append(@, rel_path)]
    ELSE plan

\* Seeded fault: every text file counts as changed.
PlanStepRehashing(plan, rel_path, tree, files) ==
    IF ~tree[rel_path].isfile THEN plan
    ELSE IF ~tree[rel_path].text
    THEN (IF rel_path \in DOMAIN files
          THEN [plan EXCEPT !.removed = Append(@, rel_path)]
          ELSE [plan EXCEPT !.skipped_binary = Append(@, rel_path)])
    ELSE [plan EXCEPT !.new_or_changed = Append(@, rel_path)]

\* The body of the loop over tracked_files.
PlanStep(plan, rel_path, tree, files) ==
    IF ~tree[rel_path].isfile THEN plan
    ELSE IF ~tree[rel_path].text
    THEN (IF rel_path \in DOMAIN files
          THEN [plan EXCEPT !.removed = Append(@, rel_path)]
          ELSE [plan EXCEPT !.skipped_binary = Append(@, rel_path)])
    ELSE IF rel_path \notin DOMAIN files \/ files[rel_path] # tree[rel_path].hash
    THEN [plan EXCEPT !.new_or_changed = Append(@, rel_path)]
    ELSE plan

RECURSIVE PlanLoop(_, _, _, _, _)
PlanLoop(tracked_files, i, plan, tree, files) ==
    IF i > Len(tracked_files) THEN plan
    ELSE PlanLoop(tracked_files, i + 1, PlanStep(plan, tracked_files[i], tree, files),
                  tree, files)

ComputeIncrementalPlan(tracked_files, tree, files) ==
    LET tracked_set == Elements(tracked_files)
        removed     == SelectSeq(PathOrder, LAMBDA p : p \in DOMAIN files /\ p \notin tracked_set)
        plan        == PlanLoop(tracked_files, 1,
                                [new_or_changed |-> <<>>, removed |-> removed,
                                 skipped_binary |-> <<>>], tree, files)
    IN  [plan EXCEPT !.removed = SortedPaths(Elements(plan.removed))]

(***************************************************************************)
(* The functions of the package, called one after another.                 *)
(***************************************************************************)
Hosts == [cuda : BOOLEAN, mps : BOOLEAN]

Preferences ==
    {None} \cup
    { Some(d) : d \in {"", "auto", "Auto", "AUTO", "cuda", "Cuda", "CUDA", "mps", "MPS",
                       "cpu", "CPU", "tpu", "gpu", "cuda:0"} }

InitFunctions == Init /\ topk_ties = "lower"

ResolveDeviceCall ==
    \E host \in Hosts, preferred \in Preferences :
        /\ last' = [op |-> "resolve_device", host |-> host, preferred |-> preferred,
                    ret |-> ResolveDevice(preferred, host)]
        /\ UNCHANGED <<records, embeddings, dimension, meta_file, embeddings_file,
                       faults, topk_ties, gone, repo>>

ChunkTextCall ==
    \E text \in Texts, chunk_lines \in 0..MaxChunkLines, overlap_lines \in -1..MaxChunkLines :
        \E out \in {ChunkText(text, chunk_lines, overlap_lines)} :
            /\ last' = [op |-> "chunk_text", text |-> text, chunk_lines |-> chunk_lines,
                        overlap_lines |-> overlap_lines,
                        result |-> out.result, ret |-> out.ret]
            /\ UNCHANGED <<records, embeddings, dimension, meta_file, embeddings_file,
                           faults, topk_ties, gone, repo>>

ComputeIncrementalPlanCall ==
    \E tracked_files \in TrackedLists, tree \in Trees, files \in IndexedFiles :
        /\ last' = [op |-> "compute_incremental_plan", tracked_files |-> tracked_files,
                    tree |-> tree, files |-> files,
                    ret |-> ComputeIncrementalPlan(tracked_files, tree, files)]
        /\ UNCHANGED <<records, embeddings, dimension, meta_file, embeddings_file,
                       faults, topk_ties, gone, repo>>

\* The caller takes the result of a call before it makes the next one.
NextFunctions ==
    \/ Idle /\ ResolveDeviceCall
    \/ Idle /\ ChunkTextCall
    \/ Idle /\ ComputeIncrementalPlanCall
    \/ Resume

SpecFunctions == InitFunctions /\ [][NextFunctions]_vars

(***************************************************************************)
(* chunk_text step by step: the call runs up to its while loop, then one   *)
(* pass of the loop at a time until it returns.  The caller takes the      *)
(* result once the call has returned.                                      *)
(***************************************************************************)
\* The locals of a call of chunk_text at its while loop or at its return, and
\* the overlap the caller gave.
ChunkLoop(pc, text, chunk_lines, given, overlap_lines, lines, start, chunks) ==
    [op |-> "chunk_text_loop", pc |-> pc, text |-> text, chunk_lines |-> chunk_lines,
     given |-> given, overlap_lines |-> overlap_lines, lines |-> lines, start |-> start,
     chunks |-> chunks]

\* chunk_text is called with arguments it accepts, and runs to "while start < total".
ChunkTextBegins ==
    \E text \in Texts, chunk_lines \in 1..MaxChunkLines, overlap_lines \in 0..(MaxChunkLines + 1) :
        LET lines == SplitLines(text)
        IN  /\ last' = ChunkLoop(IF lines = <<>> THEN "return" ELSE "while", text, chunk_lines,
                                 overlap_lines, Clamped(chunk_lines, overlap_lines),
                                 lines, 0, <<>>)
            /\ UNCHANGED <<records, embeddings, dimension, meta_file, embeddings_file,
                           faults, topk_ties, gone, repo>>

\* One pass of the loop.
ChunkTextLoops ==
    /\ last.op = "chunk_text_loop"
    /\ last.pc = "while"
    /\ LET total == Len(last.lines)
           end   == Min(last.start + last.chunk_lines, total)
           chunk == TextChunk(Join(SubSeq(last.lines, last.start + 1, end)),
                              last.start + 1, end)
       IN  last' = IF ~(last.start < total) THEN [last EXCEPT !.pc = "return"]
                   ELSE IF end >= total
                   THEN [last EXCEPT !.chunks = Append(@, chunk), !.pc = "return"]
                   ELSE [last EXCEPT !.chunks = Append(@, chunk),
                                     !.start = NextStart(end, last.overlap_lines)]
    /\ UNCHANGED <<records, embeddings, dimension, meta_file, embeddings_file,
                   faults, topk_ties, gone, repo>>

Returned == last.op = "chunk_text_loop" /\ last.pc = "return"

NextChunkLoop ==
    \/ Idle /\ ChunkTextBegins
    \/ ChunkTextLoops
    \/ Returned /\ Resume

\* The interpreter goes on with a loop it has begun.
SpecChunkLoop == InitFunctions /\ [][NextChunkLoop]_vars /\ WF_vars(ChunkTextLoops)

(***************************************************************************)
(* The indexer (src/code_index/indexer.py).  A repository is its working   *)
(* tree and the list of paths `git ls-files` prints; the index directory   *)
(* holds the store's two files and the repo config (config.json).  The     *)
(* content of a text file stands for its sha256 as well.  Every indexer    *)
(* call constructs its own VectorStore on the index directory.             *)
(***************************************************************************)
MaxIndexed == 3
MaxEdits == 1
MaxCalls == 2

DEFAULT_CHUNK_LINES == 80
DEFAULT_CHUNK_OVERLAP == 10
DEFAULT_BATCH_SIZE == 64

\* choose_chunking()
ChooseChunking ==
    [chunk_lines |-> DEFAULT_CHUNK_LINES, overlap_lines |-> DEFAULT_CHUNK_OVERLAP]

IndexPaths == {"a.py", "c.py"}

\* The contents a text file has: nothing, one line, or two lines.  Each is
\* shorter than a chunk, so a file with text gives one chunk.
Contents == {"empty", "one-line", "two-lines"}

\* read_text_file(abs_path)
ReadTextFile(content) ==
    CASE content = "empty"     -> <<>>
      [] content = "one-line"  -> <<"x", "\n">>
      [] content = "two-lines" -> <<"x", "\n", "x", "\n">>
      [] OTHER                 -> <<>>

\* What a path of the working tree is: no file, a text file, or a file that
\* is_text_file takes for binary.
IndexFileStates ==
    { [isfile |-> FALSE, text |-> FALSE, hash |-> "none"],
      [isfile |-> TRUE,  text |-> FALSE, hash |-> "binary"] }
    \cup { [isfile |-> TRUE, text |-> TRUE, hash |-> c] : c \in Contents }

\* The lists `git ls-files` prints: sorted, an unmerged path once per stage.
GitLists ==
    { <<>>, <<"a.py">>, <<"c.py">>, <<"a.py", "c.py">>, <<"a.py", "a.py">> }

\* The embedding models and the length of the vectors they return.
EmbeddingModels == {"m1", "m2"}

\* The vector the embedding service returns for a text: the same for the
\* same model and text.
EmbedText(model, text) ==
    IF model = "m1" THEN <<2 * Len(text)>> ELSE <<2 * Len(text), 2>>

\* dict with one key set
Put(dict, key, value) ==
    [k \in DOMAIN dict \cup {key} |-> IF k = key THEN value ELSE dict[k]]

\* dict.pop(key, None) for every key of keys
Pop(dict, keys) == [k \in DOMAIN dict \ keys |-> dict[k]]

\* Seeded fault: the new entries are not taken.
UpdateKeeping(dict, other) == dict

\* dict with every entry of other set
Update(dict, other) ==
    [k \in DOMAIN dict \cup DOMAIN other |-> IF k \in DOMAIN other THEN other[k] ELSE dict[k]]

\* The chunk tuples of one file.
ChunkTuples(rel_path, file_chunks, file_hash) ==
    [i \in 1..Len(file_chunks) |->
        [path |-> rel_path, line_start |-> file_chunks[i].line_start,
         line_end |-> file_chunks[i].line_end, text |-> file_chunks[i].text,
         file_hash |-> file_hash]]

\* _collect_chunks, from the i-th path on.
RECURSIVE CollectFrom(_, _, _, _, _, _)
CollectFrom(tracked_files, i, tree, chunking, chunks, file_metas) ==
    IF i > Len(tracked_files) THEN [chunks |-> chunks, file_metas |-> file_metas]
    ELSE
    LET rel_path == tracked_files[i]
        file     == tree[rel_path]
        file_chunks == ChunkText(ReadTextFile(file.hash), chunking.chunk_lines,
                                 chunking.overlap_lines).ret
    IN  IF ~file.isfile \/ ~file.text
        THEN CollectFrom(tracked_files, i + 1, tree, chunking, chunks, file_metas)
        ELSE IF file_chunks = <<>>
        THEN CollectFrom(tracked_files, i + 1, tree, chunking, chunks, file_metas)
        ELSE CollectFrom(tracked_files, i + 1, tree, chunking,
                         chunks \o ChunkTuples(rel_path, file_chunks, file.hash),
                         Put(file_metas, rel_path, file.hash))

CollectChunks(tracked_files, tree, chunking) ==
    CollectFrom(tracked_files, 1, tree, chunking, <<>>, <<>>)

\* _batched(items, batch_size)
Batched(items, batch_size) ==
    [k \in 1..((Len(items) + batch_size - 1) \div batch_size) |->
        SubSeq(items, (k - 1) * batch_size + 1, Min(k * batch_size, Len(items)))]

\* The VectorRecords of a batch of chunk tuples and their embeddings.
RecordsOf(batch, model) ==
    [idx \in 1..Len(batch) |->
        VectorRecord(EmbedText(model, batch[idx].text), batch[idx].path,
                     batch[idx].line_start, batch[idx].line_end, batch[idx].file_hash)]

\* What the store holds for a caller: the records it has or would load.
HeldRecords(st) ==
    LET l == Load(st) IN IF l.st.records = None THEN <<>> ELSE Get(l.st.records)

\* One step an indexer call made on the store, and the records before it.
Step(op, st) == [op |-> op, before |-> HeldRecords(st)]

\* The loop of _embed_and_insert from the k-th batch on.  fails is the number
\* of the embed_texts call that raises EmbeddingError, 0 when none does.
RECURSIVE InsertBatches(_, _, _, _, _, _, _)
InsertBatches(batches, k, model, st, fails, total_inserted, steps) ==
    IF k > Len(batches)
    THEN [st |-> st, result |-> "ok", total_inserted |-> total_inserted, steps |-> steps]
    ELSE IF fails = k
    THEN [st |-> st, result |-> "EmbeddingError", total_inserted |-> total_inserted,
          steps |-> steps]
    ELSE
    LET out == InsertOp(st, RecordsOf(batches[k], model), "none")
    IN  IF out.result # "ok"
        THEN [st |-> out.st, result |-> out.result, total_inserted |-> total_inserted,
              steps |-> steps]
        ELSE InsertBatches(batches, k + 1, model, out.st, fails,
                           total_inserted + out.ret, Append(steps, Step("insert", st)))

EmbedAndInsert(chunks, model, st, batch_size, fails, steps) ==
    InsertBatches(Batched(chunks, batch_size), 1, model, st, fails, 0, steps)

\* The chunk tuples as the records they become.
Collected(chunks) ==
    [i \in 1..Len(chunks) |->
        [path |-> chunks[i].path, line_start |-> chunks[i].line_start,
         line_end |-> chunks[i].line_end, file_hash |-> chunks[i].file_hash]]

NoPlan == [new_or_changed |-> <<>>, removed |-> <<>>, skipped_binary |-> <<>>]

\* What an indexer call leaves: the store, the repository with its index
\* directory, "ok" or the exception, the summary's chunks_indexed, and of its
\* locals the plan, the chunks collected and the steps made on the store.
Indexed(st, rp, result, ret, plan, chunks, steps) ==
    [st |-> Fresh(st), repo |-> rp, result |-> result, ret |-> ret, plan |-> plan,
     chunks |-> Collected(chunks), steps |-> steps]

\* The RepoConfig as save_repo_config writes it.
RepoConfig(embedding, chunking, files, chunks_indexed) ==
    [embedding |-> embedding, chunking |-> chunking, files |-> files,
     chunks_indexed |-> chunks_indexed]

InitRepoIndexOp(st, rp, embedding, fails) ==
    LET rp1      == [rp EXCEPT !.index_dir = TRUE]
        chunking == ChooseChunking
        Saved(got, ins) ==
            IF ins.result # "ok"
            THEN Indexed(ins.st, rp1, ins.result, 0, NoPlan, got.chunks, ins.steps)
            ELSE Indexed(ins.st,
                         [rp1 EXCEPT !.config = Some(RepoConfig(embedding, chunking,
                                                     got.file_metas, ins.total_inserted))],
                         "ok", ins.total_inserted, NoPlan, got.chunks, ins.steps)
        Inserted(got) ==
            Saved(got, EmbedAndInsert(got.chunks, embedding, Fresh(st),
                                      DEFAULT_BATCH_SIZE, fails, <<>>))
    IN  Inserted(CollectChunks(rp.tracked, rp.tree, chunking))

\* Seeded fault: rebuild does not drop the store.
RebuildStoreKept(st) == Outcome(Fresh(st), "ok", 0)

\* store = VectorStore(idx_dir, vector); store.drop()
RebuildStore(st) == DropOp(Fresh(st), "none")

RebuildRepoIndexOp(st, rp, embedding, batch_size, fails) ==
    IF ~rp.index_dir THEN Indexed(st, rp, "NOT_INITIALIZED", 0, NoPlan, <<>>, <<>>)
    ELSE IF rp.config = None
    THEN Indexed(st, rp, "FileNotFoundError", 0, NoPlan, <<>>, <<>>)
    ELSE
    LET config == Get(rp.config)
        steps  == <<Step("drop", Fresh(st))>>
        Saved(dropped, got, ins) ==
            IF dropped.result # "ok"
            THEN Indexed(dropped.st, rp, dropped.result, 0, NoPlan, <<>>, <<>>)
            ELSE IF ins.result # "ok"
            THEN Indexed(ins.st, rp, ins.result, 0, NoPlan, got.chunks, ins.steps)
            ELSE Indexed(ins.st,
                         [rp EXCEPT !.config = Some(RepoConfig(embedding, config.chunking,
                                                    got.file_metas, ins.total_inserted))],
                         "ok", ins.total_inserted, NoPlan, got.chunks, ins.steps)
        Inserted(dropped, got) ==
            Saved(dropped, got,
                  EmbedAndInsert(got.chunks, embedding, dropped.st, batch_size, fails, steps))
    IN  Inserted(RebuildStore(st), CollectChunks(rp.tracked, rp.tree, config.chunking))

\* Seeded fault: the files the call has collected are written to config.json.
UnsavedButFiles(rp, files) ==
    [rp EXCEPT !.config = Some([Get(rp.config) EXCEPT !.files = files])]

\* An exception leaves the call before save_repo_config: config.json stays
\* as it was, whatever the call has put into config.files.
Unsaved(rp, files) == rp

\* Seeded fault: only the removed paths are deleted.
ToDeleteRemoved(plan) == Elements(plan.removed)

\* to_delete = sorted(set(plan.removed + plan.new_or_changed)), as a set
ToDelete(plan) == Elements(plan.removed) \cup Elements(plan.new_or_changed)

\* config.chunks_indexed = max(config.chunks_indexed - deleted_count, 0) + total_inserted
ChunksIndexed(chunks_indexed, deleted_count, total_inserted) ==
    Max(chunks_indexed - deleted_count, 0) + total_inserted

IncrementalUpdateOp(st, rp, batch_size, fails) ==
    IF ~rp.index_dir THEN Indexed(st, rp, "NOT_INITIALIZED", 0, NoPlan, <<>>, <<>>)
    ELSE IF rp.config = None
    THEN Indexed(st, rp, "FileNotFoundError", 0, NoPlan, <<>>, <<>>)
    ELSE
    LET config == Get(rp.config)
        store  == Fresh(st)
        Saved(plan, del, files, got, ins) ==
            IF del.result # "ok"
            THEN Indexed(del.st, rp, del.result, 0, plan, <<>>, <<>>)
            ELSE IF ins.result # "ok"
            THEN Indexed(ins.st, Unsaved(rp, files), ins.result, 0, plan, got.chunks,
                         ins.steps)
            ELSE Indexed(ins.st,
                         [rp EXCEPT !.config =
                             Some(RepoConfig(config.embedding, config.chunking, files,
                                             ChunksIndexed(config.chunks_indexed, del.ret,
                                                           ins.total_inserted)))],
                         "ok", ins.total_inserted, plan, got.chunks, ins.steps)
        Inserted(plan, del, steps, kept, got) ==
            Saved(plan, del, Update(kept, got.file_metas), got,
                  EmbedAndInsert(got.chunks, config.embedding, del.st, batch_size, fails,
                                 steps))
        Deleted(plan, to_delete) ==
            Inserted(plan,
                     IF to_delete # {} THEN DeleteOp(store, to_delete, "none")
                     ELSE Outcome(store, "ok", 0),
                     IF to_delete # {} THEN <<Step("delete_by_paths", store)>> ELSE <<>>,
                     IF to_delete # {} THEN Pop(config.files, to_delete) ELSE config.files,
                     CollectChunks(plan.new_or_changed, rp.tree, config.chunking))
        Planned(plan) == Deleted(plan, ToDelete(plan))
    IN  Planned(ComputeIncrementalPlan(rp.tracked, rp.tree, config.files))

(***************************************************************************)
(* The machine with the indexer.  Between two indexer calls the files of   *)
(* the working tree are edited and the git index changes; an incremental   *)
(* update may be run again with nothing in between.                        *)
(***************************************************************************)
InitIndex ==
    /\ Init
    /\ topk_ties = "lower"

\* A repository the indexer has not seen yet: any working tree, any list of
\* tracked paths, no index directory.
NewRepository ==
    /\ Idle
    /\ repo = NoRepo
    /\ \E tree \in [IndexPaths -> IndexFileStates], tracked \in GitLists :
           repo' = [NoRepo EXCEPT !.tree = tree, !.tracked = tracked]
    /\ UNCHANGED <<records, embeddings, dimension, meta_file, embeddings_file, last,
                   faults, topk_ties, gone>>

\* A file of the working tree is written, replaced or removed.
EditFile ==
    /\ Idle
    /\ repo # NoRepo
    /\ repo.edits < MaxEdits
    /\ \E p \in IndexPaths, f \in IndexFileStates :
           /\ repo.tree[p] # f
           /\ repo' = [repo EXCEPT !.tree[p] = f, !.edits = @ + 1]
    /\ UNCHANGED <<records, embeddings, dimension, meta_file, embeddings_file, last,
                   faults, topk_ties, gone>>

\* git add, git rm, or a merge that leaves a path unmerged.
GitIndexChanges ==
    /\ Idle
    /\ repo # NoRepo
    /\ repo.edits < MaxEdits
    /\ \E tracked \in GitLists :
           /\ repo.tracked # tracked
           /\ repo' = [repo EXCEPT !.tracked = tracked, !.edits = @ + 1]
    /\ UNCHANGED <<records, embeddings, dimension, meta_file, embeddings_file, last,
                   faults, topk_ties, gone>>

\* The record of an indexer call.
IndexerCall(op, embedding, batch_size, fails, out, prior) ==
    [op |-> op, embedding |-> embedding, batch_size |-> batch_size, fails |-> fails,
     result |-> out.result, ret |-> out.ret, pre |-> Cur, pre_repo |-> repo,
     plan |-> out.plan, chunks |-> out.chunks, steps |-> out.steps, prior |-> prior]

\* The indexer is called at most MaxCalls times, an update run again not
\* counted; an embed_texts call fails at most MaxFaults times, and the store
\* holds at most MaxIndexed records.
IndexerDoes(op, embedding, batch_size, fails, out, prior) ==
    /\ repo # NoRepo
    /\ prior = None => repo.calls < MaxCalls
    /\ Len(HeldRecords(out.st)) <= MaxIndexed
    /\ IF fails = 0 THEN faults' = faults
       ELSE faults < MaxFaults /\ out.result = "EmbeddingError" /\ faults' = faults + 1
    /\ Becomes(out)
    /\ repo' = [out.repo EXCEPT !.calls = IF prior = None THEN @ + 1 ELSE @]
    /\ last' = IndexerCall(op, embedding, batch_size, fails, out, prior)
    /\ UNCHANGED <<topk_ties, gone>>

\* The batch_size rebuild and update are called with: one chunk to a batch, so
\* that an embed_texts call can fail between any two chunks.
BatchSizes == {1}

InitRepoIndex ==
    \E embedding \in EmbeddingModels, fails \in 0..1 :
        \E out \in {InitRepoIndexOp(Cur, repo, embedding, fails)} :
            IndexerDoes("init_repo_index", embedding, DEFAULT_BATCH_SIZE, fails, out, None)

RebuildRepoIndex ==
    \E embedding \in EmbeddingModels, batch_size \in BatchSizes, fails \in 0..MaxIndexed :
        \E out \in {RebuildRepoIndexOp(Cur, repo, embedding, batch_size, fails)} :
            IndexerDoes("rebuild_repo_index", embedding, batch_size, fails, out, None)

IncrementalUpdateWith(batch_size, fails, prior) ==
    \E out \in {IncrementalUpdateOp(Cur, repo, batch_size, fails)} :
        IndexerDoes("incremental_update", "", batch_size, fails, out, prior)

IncrementalUpdate ==
    \E batch_size \in BatchSizes, fails \in 0..MaxIndexed :
        IncrementalUpdateWith(batch_size, fails, None)

\* incremental_update once more, the repository as the call before found it.
IncrementalUpdateAgain ==
    /\ last.op = "incremental_update"
    /\ last.prior = None
    /\ IncrementalUpdateWith(last.batch_size, 0,
                             Some([pre |-> last.pre, pre_repo |-> last.pre_repo,
                                   result |-> last.result, post |-> Cur]))

NextIndex ==
    \/ NewRepository
    \/ EditFile
    \/ GitIndexChanges
    \/ Idle /\ InitRepoIndex
    \/ Idle /\ RebuildRepoIndex
    \/ Idle /\ IncrementalUpdate
    \/ IncrementalUpdateAgain
    \/ Resume

SpecIndex == InitIndex /\ [][NextIndex]_vars

(***************************************************************************)
(* What the properties speak of.                                           *)
(***************************************************************************)
\* The records, matrix and dimension that calls on the instance work with: the
\* instance's own once it has loaded, otherwise what _load reads from the files.
Visible(st) ==
    LET l == Load(st)
    IN  [records   |-> IF l.st.records = None THEN <<>> ELSE Get(l.st.records),
         matrix    |-> IF l.st.embeddings = None THEN <<>> ELSE Get(l.st.embeddings),
         dimension |-> l.st.dimension,
         result    |-> l.result]

Files(st) == [meta_file |-> st.meta_file, embeddings_file |-> st.embeddings_file]

\* meta is the metadata, and row the float32 row, of one inserted VectorRecord.
Describes(meta, row) ==
    \E r \in VectorRecords :
        /\ meta = [path |-> r.path, line_start |-> r.line_start,
                   line_end |-> r.line_end, file_hash |-> r.file_hash]
        /\ Len(row) = Len(r.embedding)
        /\ \A c \in 1..Len(row) : row[c] = ToFloat32(r.embedding[c])

Completed(op) == last.op = op /\ last.result = "ok"

Before == Visible(last.pre)
Now == Visible(Cur)

BatchDimension(batch, dim) == \A i \in 1..Len(batch) : Len(batch[i].embedding) = dim

Unchanged ==
    /\ Now.records = Before.records
    /\ Now.matrix = Before.matrix
    /\ Now.dimension = Before.dimension
    /\ Files(Cur) = Files(last.pre)

\* The insert's batch does not fit the store: its embeddings do not share one
\* dimension, or they share one that is not the established dimension.
Misfit ==
    /\ last.op = "insert"
    /\ last.batch # <<>>
    /\ \/ IsRagged(last.batch)
       \/ /\ Before.dimension # None
          /\ ~BatchDimension(last.batch, Get(Before.dimension))

\* C6. Dimension lock-in as claimed: every insert whose embeddings do not share
\* one dimension, or share one other than the established dimension, fails
\* with the dimension-mismatch error and leaves records, matrix, dimension and
\* both files as they were.
C6_LockInClaimed ==
    Misfit => last.result = "embedding dimension mismatch" /\ Unchanged

Uniform(batch) == batch # <<>> /\ ~IsRagged(batch)

NoOp == last.result = "ok" /\ last.ret = 0 /\ last.writes = {} /\ Unchanged

\* C10. insert of an empty batch, and delete_by_paths with paths that match no
\* record, return 0, write no file and leave records, matrix and dimension as
\* they were.
C10_NoOpsDoNotWrite ==
    /\ (last.op = "insert" /\ last.batch = <<>>) => NoOp
    /\ (last.op = "delete_by_paths"
          /\ \A i \in 1..Len(Before.records) : Before.records[i].path \notin last.paths)
       => NoOp

\* A delete of paths that a store with records does not hold.
C10_Witness ==
    /\ last.op = "delete_by_paths"
    /\ last.paths # {}
    /\ Before.records # <<>>
    /\ \A i \in 1..Len(Before.records) : Before.records[i].path \notin last.paths

\* The part of C6 that the code keeps: such an insert fails and changes nothing.
C6_MisfitFailsUnchanged == Misfit => last.result # "ok" /\ Unchanged

(***************************************************************************)
(* Interrupted and failing saves (SpecFault).                              *)
(***************************************************************************)
\* The process was interrupted between the two writes of the save of an
\* insert or a delete_by_paths; the instance that follows it is fresh.
Interrupted == last.result = "interrupted"

\* The records meta.json holds, and the rows embeddings.pt holds.
RecordsOnDisk == IF meta_file = None THEN 0 ELSE Len(Get(meta_file).records)
RowsOnDisk == IF embeddings_file = None THEN 0 ELSE Shape0(Get(embeddings_file))

\* C2. After an interruption between the two writes of a save, a pair on disk
\* whose record count disagrees with its matrix row count makes the next load
\* fail with the length-mismatch error.
C2_InterruptedPairDetected ==
    (Interrupted /\ RecordsOnDisk # RowsOnDisk) =>
        Load(Cur).result = "embeddings/meta length mismatch"

\* The state the interrupted call would have left had it completed.
Intended ==
    IF last.op = "insert" THEN Visible(Fresh(InsertOp(last.pre, last.batch, "none").st))
    ELSE Visible(Fresh(DeleteOp(last.pre, last.paths, "none").st))

\* C3. After an interruption inside a save, a fresh instance loads the whole
\* state from before the call or the whole state after it, with as many
\* records as matrix rows.
C3_InterruptedOldOrNew ==
    Interrupted =>
        /\ Now.result = "ok"
        /\ Len(Now.records) = Len(Now.matrix)
        /\ \/ /\ Now.records = Before.records
              /\ Now.matrix = Before.matrix
              /\ Now.dimension = Before.dimension
           \/ /\ Now.records = Intended.records
              /\ Now.matrix = Intended.matrix
              /\ Now.dimension = Intended.dimension

\* C4. A call of insert, delete_by_paths or drop that fails leaves the
\* records, matrix and dimension that later calls on the instance see as they
\* were before it.
C4_FailedCallLeavesNoEffect ==
    (last.result \notin {"ok", "interrupted"}) =>
        /\ Now.records = Before.records
        /\ Now.matrix = Before.matrix
        /\ Now.dimension = Before.dimension

(***************************************************************************)
(* Search (SpecSearch).                                                    *)
(***************************************************************************)
\* The last call was a search; its arguments, the trace of its locals, and the
\* list it returned.
Searched == last.op = "search"
Asked == Get(last.search).args
Ran == Get(last.search)
Found == last.ret

\* What the arguments and the configuration ask for.
AskedMetric == Lower(IF Asked.metric \in {None, Some("")} THEN Config.metric
                     ELSE Get(Asked.metric))
AskedMode == Lower(IF Asked.search_mode \in {None, Some("")} THEN Config.search_mode
                   ELSE Get(Asked.search_mode))
AskedRate == IF Asked.approx_sample_rate = None THEN Config.sample_rate
             ELSE Get(Asked.approx_sample_rate)
AskedDevice == Lower(IF Asked.device \in {None, Some("")} THEN Config.device
                     ELSE Get(Asked.device))

\* The store the search ran on holds records.
Stocked == Before.records # <<>>

\* The query is 1-D and as long as the store's established dimension.
QueryFits ==
    /\ Asked.embedding.ndim = 1
    /\ Before.dimension # None
    /\ Len(Asked.embedding.data) = Get(Before.dimension)

ConfigFits ==
    /\ AskedMetric \in {"ip", "l2"}
    /\ AskedMode \in {"exact", "approx"}
    /\ AskedDevice \in {"auto", "cuda", "mps", "cpu"}
    /\ AskedMode = "approx" => (0 < AskedRate[1] /\ AskedRate[1] <= AskedRate[2])

\* The query as float32 values, and the score the asked metric gives a row.
QueryVector == [c \in 1..Len(Asked.embedding.data) |-> ToFloat32(Asked.embedding.data[c])]

RECURSIVE Series(_, _, _)
Series(u, v, c) == IF c > Len(u) THEN 0 ELSE u[c] * v[c] + Series(u, v, c + 1)

RECURSIVE Gap(_, _, _)
Gap(u, v, c) == IF c > Len(u) THEN 0 ELSE (u[c] - v[c]) * (u[c] - v[c]) + Gap(u, v, c + 1)

Wanted(row) ==
    IF AskedMetric = "ip" THEN Series(row, QueryVector, 1) ELSE 0 - Gap(row, QueryVector, 1)

\* The row indices (0-based) a search may return: all of them in exact mode,
\* every Stride-th from 0 on in approx mode.
\* Stride is max(floor(1 / r), 1) for the asked rate r.
Stride == Max(AskedRate[2] \div AskedRate[1], 1)

Pool ==
    IF AskedMode = "approx"
    THEN {i \in 0..(Len(Before.records) - 1) : i % Stride = 0}
    ELSE 0..(Len(Before.records) - 1)

\* Result i is the record at the index of the i-th entry of `best`, with the
\* score the asked metric gives that row.
Carries(i) ==
    LET idx == Ran.best[i][2]
    IN  /\ idx \in 0..(Len(Before.records) - 1)
        /\ Found[i].path = Before.records[idx + 1].path
        /\ Found[i].line_start = Before.records[idx + 1].line_start
        /\ Found[i].line_end = Before.records[idx + 1].line_end
        /\ Found[i].score = Wanted(Before.matrix[idx + 1])

\* The search returned the k best of the rows in pool, best first.
RankedOver(pool, k) ==
    /\ last.result = "ok"
    /\ Len(Found) = Min(k, Cardinality(pool))
    /\ Len(Ran.best) = Len(Found)
    /\ \A i \in 1..Len(Found) : Carries(i) /\ Ran.best[i][2] \in pool
    /\ \A i, j \in 1..Len(Found) :
          i < j => Ran.best[i][2] # Ran.best[j][2] /\ Found[i].score >= Found[j].score
    /\ \A p \in pool \ {Ran.best[i][2] : i \in 1..Len(Found)} :
          \A i \in 1..Len(Found) : Found[i].score >= Wanted(Before.matrix[p + 1])

\* C11. After delete_by_paths(P) completes, every later search, whatever its
\* mode, metric, top_k and budget, returns no record whose path is in P until
\* an insert adds a record with such a path; and the first result of an exact
\* search is then the best of the records that remain.
C11_DeletedStayOut ==
    Searched =>
        /\ \A i \in 1..Len(Found) : Found[i].path \notin gone
        /\ \A i \in 1..Len(Before.records) : Before.records[i].path \notin gone
        /\ (Found # <<>> /\ AskedMode = "exact") =>
              /\ Carries(1)
              /\ \A p \in 1..Len(Before.matrix) : Found[1].score >= Wanted(Before.matrix[p])

\* An exact search that returns a record of the one path of three that no
\* delete has named since its last insert.
C11_Witness ==
    /\ Searched
    /\ Cardinality(gone) = 2
    /\ Found # <<>>
    /\ AskedMode = "exact"

\* The search was asked for at least no result, of a store with records, with
\* arguments that pass every check of search.
Proper == Searched /\ Stocked /\ QueryFits /\ ConfigFits /\ Asked.top_k >= 0

\* C12. Exact search with metric ip on a store of n vectors returns min(k, n)
\* results: their scores are the min(k, n) largest dot products of the query
\* with the stored rows, in descending order, and each result carries the path
\* and line range of the record at the index of the row it scores.
C12_ExactInnerProduct ==
    /\ (Proper /\ AskedMode = "exact" /\ AskedMetric = "ip") =>
          RankedOver(0..(Len(Before.records) - 1), Asked.top_k)
    /\ (Searched /\ ~Stocked) => last.result = "ok" /\ Found = <<>>

\* An exact ip search for fewer results than the store has rows, the rows
\* scoring differently.
C12_Witness ==
    /\ Proper /\ AskedMode = "exact" /\ AskedMetric = "ip"
    /\ Len(Found) = Asked.top_k
    /\ Len(Before.records) > Asked.top_k
    /\ Asked.top_k >= 2
    /\ Found[1].score > Found[2].score
    /\ Ran.best[1][2] > Ran.best[2][2]

\* What the same search returns from the same store under the memory budget b.
Under(b) == SearchOp(last.pre, [Asked EXCEPT !.max_vram_mb = b], Config, topk_ties)

Scores(results) == [i \in 1..Len(results) |-> results[i].score]

\* No two rows of the store score the same against the query.
TiesFree ==
    \A i, j \in 1..Len(Before.matrix) :
        i # j => Wanted(Before.matrix[i]) # Wanted(Before.matrix[j])

\* C13 as claimed. For a fixed store, query, metric and top_k, exact search
\* returns the same records in the same order with the same scores under every
\* memory budget, one that forces chunks of one row and none at all included.
C13_ChunkingInvariant ==
    (Proper /\ AskedMode = "exact") =>
        \A b \in Budgets : \A out \in {Under(b)} :
            out.result = last.result /\ out.ret = Found

\* C13. For a fixed store, query, metric and top_k, exact search returns the
\* same list of scores under every memory budget, and the same records in the
\* same order whenever no two rows score the same.
C13_ChunkingInvariantUpToTies ==
    (Proper /\ AskedMode = "exact") =>
        \A b \in Budgets : \A out \in {Under(b)} :
            /\ out.result = last.result
            /\ Scores(out.ret) = Scores(Found)
            /\ TiesFree => out.ret = Found

\* An exact search in chunks of one row over three rows of different scores
\* that returns two of them.
C13_Witness ==
    /\ Proper /\ AskedMode = "exact"
    /\ Ran.chunk_size = 1
    /\ Len(Before.records) >= 3
    /\ TiesFree
    /\ Len(Found) >= 2

\* C14. With metric l2 the score of a candidate is the negative squared
\* Euclidean distance of its row to the query: every score is <= 0 and the
\* results are the top_k candidates nearest to the query, nearest first.  With
\* either metric the results are in non-increasing score order.
C14_NegativeSquaredDistance ==
    /\ (Proper /\ AskedMetric = "l2") =>
          /\ RankedOver(Pool, Asked.top_k)
          /\ \A i \in 1..Len(Found) :
                /\ Found[i].score <= 0
                /\ Found[i].score = 0 - Gap(Before.matrix[Ran.best[i][2] + 1], QueryVector, 1)
    /\ Searched =>
          \A i, j \in 1..Len(Found) : i < j => Found[i].score >= Found[j].score

\* An l2 search that returns two rows at different distances of the query and
\* leaves a third out.
C14_Witness ==
    /\ Proper /\ AskedMetric = "l2"
    /\ Len(Found) = 2
    /\ Cardinality(Pool) > 2
    /\ Found[1].score > Found[2].score
    /\ Found[2].score < 0

\* C15. In approx mode with a sample rate r in (0, 1] the candidates are
\* exactly the row indices 0, s, 2s, ... below the record count, with
\* s = max(floor(1 / r), 1), and every result is the record at one of them.
C15_StrideSampling ==
    (Proper /\ AskedMode = "approx") =>
        /\ last.result = "ok"
        /\ Len(Ran.indices) = Cardinality(Pool)
        /\ \A i \in 1..Len(Ran.indices) : Ran.indices[i] = (i - 1) * Stride
        /\ \A i \in 1..Len(Found) : Ran.best[i][2] \in Pool /\ Carries(i)

\* An approx search with stride 2 over three rows, of which the one left out
\* scores above the best result.
C15_Witness ==
    /\ Proper /\ AskedMode = "approx"
    /\ Stride = 2
    /\ Len(Before.records) >= 3
    /\ Found # <<>>
    /\ Wanted(Before.matrix[2]) > Found[1].score

\* The search repeats the search before it: same arguments, no call in between.
Repeated == Searched /\ Ran.prior # None

C19_SearchReadOnly == Searched => Unchanged /\ last.writes = {}

\* A search that failed, on an instance that had yet to load its records.
C19_Witness ==
    /\ Searched
    /\ Stocked
    /\ last.pre.records = None
    /\ last.result # "ok"

\* The errors of search: the StorageErrors of its checks of metric, mode and
\* rate and the ValueError of resolve_device, and the StorageErrors of its
\* checks of the query.
InvalidConfig ==
    { "metric must be ip or l2", "search_mode must be exact or approx",
      "approx.sample_rate must be in (0, 1]", "device must be one of auto/cuda/mps/cpu" }

DimensionMismatch == {"query embedding must be 1D", "query embedding dimension mismatch"}

\* The query is not 1-D, or not as long as the store's established dimension.
BadQuery ==
    \/ Asked.embedding.ndim # 1
    \/ Before.dimension # None /\ Len(Asked.embedding.data) # Get(Before.dimension)

\* The search failed with the error of its arguments, scored no row and left
\* the store as it was.
Rejected ==
    /\ BadQuery => last.result \in DimensionMismatch
    /\ (~BadQuery /\ ~ConfigFits) => last.result \in InvalidConfig
    /\ Ran.scored = 0
    /\ Found = <<>>
    /\ Unchanged

\* C17 as claimed. Whenever search is called with a metric, mode, device or (in
\* approx mode) sample rate it does not accept, it fails with InvalidConfig,
\* and whenever the query is not 1-D or of another length than the store's
\* dimension, with DimensionMismatch; no row is scored and the store is unchanged.
C17_ValidatesAlways == (Searched /\ (BadQuery \/ ~ConfigFits)) => Rejected

\* C17. The same of every search of a store that holds records; the query is
\* checked first.
C17_ValidatesOnRecords == (Searched /\ Stocked /\ (BadQuery \/ ~ConfigFits)) => Rejected

\* An approx search of a store with records, with a fitting query and a sample
\* rate above 1.
C17_Witness ==
    /\ Searched /\ Stocked /\ ~BadQuery
    /\ AskedMode = "approx"
    /\ AskedRate[1] > AskedRate[2]
    /\ last.result = "approx.sample_rate must be in (0, 1]"

\* C18. For every top_k >= 1 a search returns exactly min(top_k, number of
\* candidates) results, never more than top_k, whatever the chunk size; on a
\* store without records it returns the empty list and no error.
C18_ResultCount ==
    /\ (Proper /\ Asked.top_k >= 1) =>
          /\ last.result = "ok"
          /\ Len(Found) = Min(Asked.top_k, Cardinality(Pool))
    /\ (Searched /\ Asked.top_k >= 1) => Len(Found) <= Asked.top_k
    /\ (Searched /\ ~Stocked) => last.result = "ok" /\ Found = <<>>

\* A search in chunks of one row for fewer results than it has candidates.
C18_Witness ==
    /\ Proper /\ Asked.top_k >= 1
    /\ Ran.chunk_size = 1
    /\ Cardinality(Pool) > Asked.top_k
    /\ Len(Found) = Asked.top_k

\* C20. drop, called in any state, succeeds and leaves neither backing file;
\* the instance then behaves as an empty store of unknown dimension: every
\* search returns the empty list and an insert of any dimension is accepted.
\* Called again, or with nothing on disk, drop succeeds and changes nothing.
C20_DropResets ==
    last.op = "drop" =>
        /\ last.result = "ok"
        /\ meta_file = None /\ embeddings_file = None
        /\ last.writes = {f \in {"meta", "embeddings"} :
                             IF f = "meta" THEN last.pre.meta_file # None
                             ELSE last.pre.embeddings_file # None}
        /\ Now.result = "ok"
        /\ Now.records = <<>> /\ Now.matrix = <<>> /\ Now.dimension = None
        /\ \A args \in SearchInputs :
              LET out == SearchOp(Cur, args, Config, topk_ties)
              IN  out.result = "ok" /\ out.ret = <<>>
        /\ \A batch \in Batches :
              Uniform(batch) =>
                  LET out == InsertOp(Cur, batch, "none")
                  IN  /\ out.result = "ok"
                      /\ Visible(out.st).dimension = Some(Len(batch[1].embedding))
                      /\ Len(Visible(out.st).records) = Len(batch)
        /\ LET again == DropOp(Cur, "none")
           IN  /\ again.result = "ok"
               /\ again.writes = {}
               /\ Visible(again.st) = Now
               /\ Files(again.st) = Files(Cur)
        /\ (last.pre.meta_file = None /\ last.pre.embeddings_file = None) =>
              Unchanged /\ last.writes = {}

\* A drop of a store that held records and both files.
C20_Witness ==
    /\ last.op = "drop"
    /\ Len(Before.records) >= 2
    /\ last.pre.meta_file # None
    /\ last.pre.embeddings_file # None

(***************************************************************************)
(* The loop of search, pass by pass (SpecSearch).                          *)
(***************************************************************************)
\* The candidates of the first j chunks.
SeenBy(j) ==
    UNION { { Ran.passes[i].chunk_indices[c] : c \in 1..Len(Ran.passes[i].chunk_indices) } :
            i \in 1..j }

\* best is the k best of the candidates in seen, best first, each with the
\* score the asked metric gives its row.
BestOf(best, seen, k) ==
    /\ Len(best) = Min(k, Cardinality(seen))
    /\ \A i \in 1..Len(best) :
          /\ best[i][2] \in seen
          /\ best[i][1] = Wanted(Before.matrix[best[i][2] + 1])
    /\ \A i, j \in 1..Len(best) :
          i < j => best[i][2] # best[j][2] /\ best[i][1] >= best[j][1]
    /\ \A p \in seen \ {best[i][2] : i \in 1..Len(best)} :
          \A i \in 1..Len(best) : best[i][1] >= Wanted(Before.matrix[p + 1])

\* C29. Merge loop invariant: after the j-th chunk the running list `best`
\* holds min(top_k, candidates seen so far) candidates of chunks 1..j, none of
\* the candidates seen and left out scoring above one of them, in descending
\* score order; the list after the last chunk is the list returned, so that no
\* candidate of the global top_k is lost to a chunk's own top-k.
C29_MergeLoop ==
    Proper =>
        /\ \A j \in 1..Len(Ran.passes) :
              BestOf(Ran.passes[j].best, SeenBy(j), Asked.top_k)
        /\ Ran.passes # <<>>
        /\ Ran.best = Ran.passes[Len(Ran.passes)].best
        /\ SeenBy(Len(Ran.passes)) = Pool

\* A search in three chunks of one row for two results, in which the row of
\* the third chunk comes out on top.
C29_Witness ==
    /\ Proper
    /\ Len(Ran.passes) = 3
    /\ Ran.chunk_size = 1
    /\ Asked.top_k = 2
    /\ Ran.passes[3].best[1][2] = 2
    /\ Ran.passes[3].best[2] = Ran.passes[2].best[1]

\* s ++ t ++ ... for the chunks of the passes, in order.
RECURSIVE ChunksJoined(_, _)
ChunksJoined(passes, j) ==
    IF j = 0 THEN <<>> ELSE ChunksJoined(passes, j - 1) \o passes[j].chunk_indices

\* C30. The chunks of a search are the candidate indices cut into consecutive
\* pieces, in index order: every candidate is in exactly one chunk, and so
\* scored once.  No row appears twice in the result list, and every result is
\* the record at an index the store has.
C30_ChunksPartition ==
    Proper =>
        /\ ChunksJoined(Ran.passes, Len(Ran.passes)) = Ran.indices
        /\ \A j \in 1..Len(Ran.passes) :
              /\ Ran.passes[j].chunk_indices # <<>>
              /\ Len(Ran.passes[j].chunk_indices) <= Ran.chunk_size
        /\ \A i, j \in 1..Len(Ran.indices) : i < j => Ran.indices[i] < Ran.indices[j]
        /\ Ran.scored = Len(Ran.indices)
        /\ Len(Found) = Len(Ran.best)
        /\ \A i, j \in 1..Len(Found) : i < j => Ran.best[i][2] # Ran.best[j][2]
        /\ \A i \in 1..Len(Found) : Carries(i)

\* A search in three chunks of one row that returns two records.
C30_Witness ==
    /\ Proper
    /\ Len(Ran.passes) = 3
    /\ \A j \in 1..3 : Ran.passes[j].chunk_indices = <<j - 1>>
    /\ Len(Found) = 2

\* The search ran under a memory budget of M megabytes; RowBound is
\* max(floor(M * 2^20 / (4 * D * 1.2)), 1) for the store's dimension D.
Budgeted ==
    Proper /\ (IF Asked.max_vram_mb # None THEN Asked.max_vram_mb
               ELSE Config.max_vram_mb) # None

RowBound ==
    LET M == Get(IF Asked.max_vram_mb # None THEN Asked.max_vram_mb ELSE Config.max_vram_mb)
        D == Get(Before.dimension)
    IN  Max((M * 1048576 * 5) \div (4 * D * 6), 1)

\* C25 as claimed. Under a budget of M megabytes every chunk moved to the
\* device has at most RowBound rows, and at no time are more rows than one
\* chunk's on the device, however many rows the store has.
C25_OneChunkResident ==
    Budgeted =>
        \A j \in 1..Len(Ran.passes) :
            /\ Len(Ran.passes[j].chunk_indices) <= RowBound
            /\ Ran.passes[j].resident <= RowBound

\* The part of C25 that the code keeps: no chunk has more than RowBound rows,
\* and never more than two chunks' rows are on the device.
C25_ChunkRowsBounded ==
    Budgeted =>
        \A j \in 1..Len(Ran.passes) :
            /\ Len(Ran.passes[j].chunk_indices) <= RowBound
            /\ Ran.passes[j].resident <= 2 * RowBound

(***************************************************************************)
(* Loading (SpecLoad).                                                     *)
(***************************************************************************)
\* The last call was the load of a new instance.
Loaded == last.op = "load" /\ last.pre.records = None

\* The directory held both files, with n records and m rows, n # m.
MismatchedPair ==
    /\ last.pre.meta_file # None
    /\ last.pre.embeddings_file # None
    /\ Len(Get(last.pre.meta_file).records) # Shape0(Get(last.pre.embeddings_file))

\* The load failed and the instance holds nothing.
LoadRejected ==
    /\ last.result = "embeddings/meta length mismatch"
    /\ records = None /\ embeddings = None /\ dimension = None

\* C21 as claimed. Whenever meta.json and embeddings.pt are both present and
\* the matrix has m rows while the metadata has n # m records (n >= 0, m >= 0),
\* the load fails with the length-mismatch error and the pair is not loaded.
C21_MismatchedPairRejected == (Loaded /\ MismatchedPair) => LoadRejected

\* The part of C21 that the code keeps: such a pair is rejected when the
\* metadata holds at least one record.
C21_MismatchedRecordsRejected ==
    (Loaded /\ MismatchedPair /\ Get(last.pre.meta_file).records # <<>>) => LoadRejected

\* C22 as claimed. When the directory holds no meta.json, the load yields the
\* empty state, no records, no matrix and no dimension, with or without an
\* embeddings.pt.
C22_NoMetaLoadsEmpty ==
    (Loaded /\ last.pre.meta_file = None) =>
        /\ last.result = "ok"
        /\ records = Some(<<>>)
        /\ NoEmbeddings(embeddings)
        /\ dimension = None

\* The part of C22 that the code keeps: with neither file the load yields the
\* empty state.
C22_NoFilesLoadEmpty ==
    (Loaded /\ last.pre.meta_file = None /\ last.pre.embeddings_file = None) =>
        /\ last.result = "ok"
        /\ records = Some(<<>>)
        /\ embeddings = None
        /\ dimension = None

AsksAuto == last.preferred \in {None, Some(""), Some("auto"), Some("Auto"), Some("AUTO")}
AsksCuda == last.preferred \in {Some("cuda"), Some("Cuda"), Some("CUDA")}
AsksMps == last.preferred \in {Some("mps"), Some("MPS")}
AsksCpu == last.preferred \in {Some("cpu"), Some("CPU")}

\* The devices the host has.
Available == {"cpu"} \cup (IF last.host.cuda THEN {"cuda"} ELSE {})
                     \cup (IF last.host.mps THEN {"mps"} ELSE {})

\* C26. resolve_device, whatever cuda and mps availability: auto, or no
\* preference, gives the first available of cuda, mps, cpu; cuda gives cuda if
\* available and cpu otherwise; mps gives mps if available and cpu otherwise;
\* cpu gives cpu; the case of the preference does not matter; the device
\* returned is always an available one and a device that is not available
\* never makes the call fail; every other preference fails.
C26_ResolveDevice ==
    last.op = "resolve_device" =>
        /\ AsksAuto => last.ret = Some(IF last.host.cuda THEN "cuda"
                                       ELSE IF last.host.mps THEN "mps" ELSE "cpu")
        /\ AsksCuda => last.ret = Some(IF last.host.cuda THEN "cuda" ELSE "cpu")
        /\ AsksMps => last.ret = Some(IF last.host.mps THEN "mps" ELSE "cpu")
        /\ AsksCpu => last.ret = Some("cpu")
        /\ last.ret # None => Get(last.ret) \in Available
        /\ last.ret = None <=> ~(AsksAuto \/ AsksCuda \/ AsksMps \/ AsksCpu)

\* CUDA asked for in capitals on a host that has mps and no cuda.
C26_Witness ==
    /\ last.op = "resolve_device"
    /\ last.preferred = Some("CUDA")
    /\ ~last.host.cuda /\ last.host.mps
    /\ last.ret = Some("cpu")

\* The tracked files that exist, and those of them that are text.
TrackedFiles == {p \in Elements(last.tracked_files) : last.tree[p].isfile}
TrackedTexts == {p \in TrackedFiles : last.tree[p].text}

\* C27. compute_incremental_plan: new_or_changed is the tracked files that
\* exist and are text and whose hash config.files lacks or has otherwise;
\* removed is, sorted and without duplicates, the paths of config.files that
\* are not tracked any more or are tracked files that are not text any more;
\* skipped_binary is the tracked files that exist, are not text and are not
\* in config.files; no path is in two of the three lists.
C27_IncrementalPlan ==
    last.op = "compute_incremental_plan" =>
        LET plan == last.ret
            files == last.files
        IN  /\ Elements(plan.new_or_changed) =
                  {p \in TrackedTexts : p \notin DOMAIN files \/ files[p] # last.tree[p].hash}
            /\ Elements(plan.removed) =
                  {p \in DOMAIN files :
                      \/ p \notin Elements(last.tracked_files)
                      \/ p \in TrackedFiles \ TrackedTexts}
            /\ \A i, j \in 1..Len(plan.removed) :
                  i < j => \E a, b \in 1..Len(PathOrder) :
                              a < b /\ PathOrder[a] = plan.removed[i]
                                    /\ PathOrder[b] = plan.removed[j]
            /\ Elements(plan.skipped_binary) =
                  {p \in TrackedFiles \ TrackedTexts : p \notin DOMAIN files}
            /\ Elements(plan.new_or_changed) \cap Elements(plan.removed) = {}
            /\ Elements(plan.new_or_changed) \cap Elements(plan.skipped_binary) = {}
            /\ Elements(plan.removed) \cap Elements(plan.skipped_binary) = {}

\* A plan with a changed file, a file that left the tracked ones and one that
\* turned binary, the last two listed against their order.
C27_Witness ==
    /\ last.op = "compute_incremental_plan"
    /\ last.tracked_files = <<"c.py", "b.bin">>
    /\ last.ret.new_or_changed = <<"c.py">>
    /\ last.ret.removed = <<"a.py", "b.bin">>
    /\ "c.py" \in DOMAIN last.files
    /\ last.files["c.py"] # last.tree["c.py"].hash

\* The number of lines of the text, and the overlap the chunks have.
LineCount == Len(SplitLines(last.text))
Overlap == Min(last.overlap_lines, last.chunk_lines - 1)

\* C28. For a text of N >= 1 lines, chunk_lines c >= 1 and overlap o >= 0,
\* chunk_text returns chunks with 1 <= line_start <= line_end <= N of at most c
\* lines each; the first starts at line 1, the last ends at line N, and each
\* next one starts min(o, c - 1) lines before the line after the end of the
\* one before; so every line is in a chunk.
C28_ChunkText ==
    (last.op = "chunk_text" /\ LineCount >= 1 /\ last.chunk_lines >= 1
        /\ last.overlap_lines >= 0) =>
        LET chunks == last.ret
        IN  /\ last.result = "ok"
            /\ chunks # <<>>
            /\ \A i \in 1..Len(chunks) :
                  /\ 1 <= chunks[i].line_start
                  /\ chunks[i].line_start <= chunks[i].line_end
                  /\ chunks[i].line_end <= LineCount
                  /\ chunks[i].line_end - chunks[i].line_start + 1 <= last.chunk_lines
            /\ chunks[1].line_start = 1
            /\ chunks[Len(chunks)].line_end = LineCount
            /\ \A i \in 1..(Len(chunks) - 1) :
                  chunks[i + 1].line_start = chunks[i].line_end + 1 - Overlap
            /\ \A n \in 1..LineCount :
                  \E i \in 1..Len(chunks) :
                      chunks[i].line_start <= n /\ n <= chunks[i].line_end

\* Four lines in chunks of two with an overlap of one: lines 1-2, 2-3, 3-4.
C28_Witness ==
    /\ last.op = "chunk_text"
    /\ LineCount = 4
    /\ last.chunk_lines = 2
    /\ last.overlap_lines = 1
    /\ Len(last.ret) = 3
    /\ last.ret[2].line_start = 2 /\ last.ret[2].line_end = 3
    /\ last.ret[3].line_start = 3 /\ last.ret[3].line_end = 4

(***************************************************************************)
(* The indexer's claims.  For an indexer call, last.pre and last.pre_repo  *)
(* are the store and the repository it found, last.plan its plan,          *)
(* last.chunks the chunks it collected (as the records they become) and    *)
(* last.steps the calls it made on the store, each with the records the    *)
(* store held before it.                                                   *)
(***************************************************************************)
Updating == last.op = "incremental_update" /\ last.pre_repo.config # None

Updated == Completed("incremental_update")

\* The paths the update found removed, and new or changed.
RemovedPaths == Elements(last.plan.removed)
ChangedPaths == Elements(last.plan.new_or_changed)

\* The positions of the records of path p.
At(recs, p) == {i \in 1..Len(recs) : recs[i].path = p}

\* The records of path p and their rows, in the order the store holds them.
Of(vis, p) ==
    LET idx == SelectSeq([i \in 1..Len(vis.records) |-> i],
                         LAMBDA i : vis.records[i].path = p)
    IN  [k \in 1..Len(idx) |-> <<vis.records[idx[k]], vis.matrix[idx[k]]>>]

InsertSteps == {i \in 1..Len(last.steps) : last.steps[i].op = "insert"}

\* C31. In incremental_update every record of a removed or new-or-changed path
\* is deleted before the first record is inserted: the store holds no record
\* of such a path when the first insert begins.  After a successful update
\* every record of a new-or-changed file carries the file's current hash.
C31_DeleteBeforeInsert ==
    Updating =>
        /\ \A i \in InsertSteps :
               (\A j \in InsertSteps : i <= j) =>
                   \A p \in RemovedPaths \cup ChangedPaths : At(last.steps[i].before, p) = {}
        /\ Updated =>
               \A i \in 1..Len(Now.records) :
                   Now.records[i].path \in ChangedPaths =>
                       Now.records[i].file_hash = last.pre_repo.tree[Now.records[i].path].hash

\* A successful update of a file whose records carried another hash.
C31_Witness ==
    /\ Updated
    /\ \E p \in ChangedPaths :
           /\ \E i \in At(Before.records, p) :
                  Before.records[i].file_hash # last.pre_repo.tree[p].hash
           /\ At(Now.records, p) # {}

\* C32. As claimed: after a successful incremental_update every record of the
\* store belongs to a path that is tracked, exists on disk and is a text file.
C32_OnlyLiveFiles ==
    Updated =>
        \A i \in 1..Len(Now.records) :
            LET p == Now.records[i].path
            IN  /\ p \in Elements(repo.tracked)
                /\ repo.tree[p].isfile
                /\ repo.tree[p].text

\* C33. As claimed: after every successful init_repo_index, rebuild_repo_index
\* or incremental_update the saved config.chunks_indexed is the number of
\* records in the store.
C33_ChunksIndexedIsCount ==
    (Completed("init_repo_index") \/ Completed("rebuild_repo_index") \/ Updated) =>
        /\ repo.config # None
        /\ Get(repo.config).chunks_indexed = Len(Now.records)

\* The update before this one aborted in an embedding call, and this one ran
\* on the repository as that one found it.
Recovering ==
    /\ Updated
    /\ last.prior # None
    /\ Get(last.prior).result = "EmbeddingError"

\* What one update without a failure leaves of the store the aborted one found.
Uninterrupted ==
    IncrementalUpdateOp(Get(last.prior).pre, Get(last.prior).pre_repo, last.batch_size, 0)

\* C34. Recovery: when an incremental_update aborted in an embedding call and
\* the next one on the unchanged repository succeeds, the store holds the
\* records, rows and dimension that one update without a failure would have
\* left: none twice, none missing.
C34_Recovery ==
    Recovering =>
        /\ Uninterrupted.result = "ok"
        /\ Now.records = Visible(Uninterrupted.st).records
        /\ Now.matrix = Visible(Uninterrupted.st).matrix
        /\ Now.dimension = Visible(Uninterrupted.st).dimension

\* The aborted update had deleted records and had inserted a batch.
C34_Witness ==
    /\ Recovering
    /\ \E p \in ChangedPaths :
           /\ At(Visible(Get(last.prior).pre).records, p) # {}
           /\ At(Visible(Get(last.prior).post).records, p) # {}
    /\ Len(last.chunks) > 1
    /\ Len(Visible(Get(last.prior).post).records) < Len(Now.records)

\* C35. As claimed: after init_repo_index returns, the store holds exactly one
\* record per chunk collected in that run, whatever it held before.
C35_InitHoldsCollected ==
    Completed("init_repo_index") => Now.records = last.chunks

\* The length of the vectors of the model.
DimensionOf(model) == Len(EmbedText(model, <<>>))

Rebuilding == last.op = "rebuild_repo_index" /\ last.pre_repo.config # None

\* C36. rebuild_repo_index drops the store before the first insert: the first
\* step is the drop and the first insert finds no record.  A rebuild without
\* a failing embedding call succeeds, whatever the dimension of the index
\* before, and then the store holds exactly the records of the chunks
\* collected in that run, with rows of the new model's dimension.
C36_RebuildReplaces ==
    Rebuilding =>
        /\ last.steps # <<>> => last.steps[1].op = "drop"
        /\ \A i \in InsertSteps :
               /\ i > 1
               /\ (\A j \in InsertSteps : i <= j) => last.steps[i].before = <<>>
        /\ last.fails = 0 => last.result = "ok"
        /\ last.result = "ok" =>
               /\ Now.records = last.chunks
               /\ Len(Now.matrix) = Len(last.chunks)
               /\ \A i \in 1..Len(Now.matrix) : Len(Now.matrix[i]) = DimensionOf(last.embedding)
               /\ Now.records # <<>> => Now.dimension = Some(DimensionOf(last.embedding))

\* A rebuild with a model of another dimension than the records before had.
C36_Witness ==
    /\ Completed("rebuild_repo_index")
    /\ Before.records # <<>>
    /\ Before.dimension = Some(1)
    /\ Now.dimension = Some(2)
    /\ Now.records # <<>>

\* The tracked text files whose hash is the one config.files has for them.
UnchangedPaths ==
    LET rp == last.pre_repo
    IN  {p \in Elements(rp.tracked) :
            /\ rp.tree[p].isfile
            /\ rp.tree[p].text
            /\ p \in DOMAIN Get(rp.config).files
            /\ Get(rp.config).files[p] = rp.tree[p].hash}

\* C37. incremental_update neither deletes nor re-inserts the records of a
\* tracked text file whose hash equals the one in config.files: before every
\* step and after the update the store holds the same records of the file,
\* with the same rows, in the same order.
C37_UnchangedUntouched ==
    Updating =>
        \A p \in UnchangedPaths :
            /\ Of(Now, p) = Of(Before, p)
            /\ \A i \in 1..Len(last.steps) :
                   [k \in 1..Len(Of(Before, p)) |-> Of(Before, p)[k][1]]
                       = SelectSeq(last.steps[i].before, LAMBDA r : r.path = p)

\* An update replaced the records of one file and kept those of another that
\* the store holds behind them.
C37_Witness ==
    /\ Updated
    /\ \E p \in UnchangedPaths, q \in ChangedPaths :
           /\ \E i \in At(Before.records, q), j \in At(Before.records, p) : i < j
           /\ At(Now.records, q) # {}
           /\ Of(Now, p) # <<>>

\* The update before this one succeeded, and this one ran on the repository
\* as that one left it.
Repeating ==
    /\ Updated
    /\ last.prior # None
    /\ Get(last.prior).result = "ok"

\* C38. incremental_update is idempotent on an unchanged repository: a second
\* successful run inserts nothing and leaves the records, rows and dimension
\* of the store as the first run left them.
C38_Idempotent ==
    Repeating =>
        /\ last.ret = 0
        /\ InsertSteps = {}
        /\ Now.records = Visible(Get(last.prior).post).records
        /\ Now.matrix = Visible(Get(last.prior).post).matrix
        /\ Now.dimension = Visible(Get(last.prior).post).dimension

\* The first run had replaced the records of a file, and a tracked file
\* without a line is planned again by the second.
C38_Witness ==
    /\ Repeating
    /\ Visible(Get(last.prior).pre).records # Visible(Get(last.prior).post).records
    /\ Now.records # <<>>
    /\ ChangedPaths # {}

(***************************************************************************)
(* chunk_text's loop.                                                      *)
(***************************************************************************)
Looping == last.op = "chunk_text_loop" /\ last.pc = "while"

InLoop == last.op = "chunk_text_loop"

\* One pass that goes round again.
GoesRound == Looping /\ last'.op = "chunk_text_loop" /\ last'.pc = "while"

\* C39. chunk_text terminates for every text, every chunk_lines >= 1 and every
\* overlap_lines >= 0, those at or above chunk_lines included: a call that has
\* reached its loop returns; every pass that goes round again begins at a line
\* behind the one before; the chunks begin at strictly increasing lines, and
\* there are at most as many chunks as the text has lines.
C39_ChunkTextTerminates ==
    /\ [](InLoop =>
              /\ Len(last.chunks) <= Len(last.lines)
              /\ last.start \in 0..Len(last.lines)
              /\ \A i \in 1..Len(last.chunks) :
                     \A j \in 1..Len(last.chunks) :
                         i < j => last.chunks[i].line_start < last.chunks[j].line_start)
    /\ [][GoesRound => last'.start > last.start]_vars
    /\ (Looping ~> Returned)

\* A call with an overlap at or above chunk_lines has returned several chunks.
C39_Witness ==
    /\ Returned
    /\ last.given >= last.chunk_lines
    /\ last.chunk_lines > 1
    /\ Len(last.chunks) > 2

\* The step machine returns what ChunkText gives for the same arguments.
ChunkLoopAgrees ==
    Returned => last.chunks = ChunkText(last.text, last.chunk_lines, last.given).ret

(***************************************************************************)
(* The candidates of a sampled search.                                     *)
(***************************************************************************)
\* An approx search that passes every check, of a store with records.
Sampling == Proper /\ AskedMode = "approx"

\* The rate asked is above 1/2.
AboveHalf == 2 * AskedRate[1] > AskedRate[2]

\* What the same search returns from the same store in exact mode.
Exactly == SearchOp(last.pre, [Asked EXCEPT !.search_mode = Some("exact")], Config, topk_ties)

\* C40. In approx mode on a store of n >= 1 records with sample rate r, row 0
\* is a candidate and there are ceil(n / max(floor(1 / r), 1)) candidates,
\* never fewer than r * n; for every r with 1/2 < r <= 1 the stride is 1 and
\* the search returns what the exact search returns.
C40_SampleCount ==
    Sampling =>
        /\ last.result = "ok"
        /\ Ran.indices # <<>>
        /\ Ran.indices[1] = 0
        /\ Len(Ran.indices) = (Len(Before.records) + Stride - 1) \div Stride
        /\ Len(Ran.indices) * AskedRate[2] >= AskedRate[1] * Len(Before.records)
        /\ AboveHalf =>
              /\ Stride = 1
              /\ Len(Ran.indices) = Len(Before.records)
              /\ Exactly.result = "ok"
              /\ Exactly.ret = Found

\* A search at a rate strictly between 1/2 and 1 over at least three rows that
\* returns several records, in another order than the rows are stored.
C40_Witness ==
    /\ Sampling
    /\ AboveHalf
    /\ AskedRate[1] < AskedRate[2]
    /\ Len(Before.records) >= 3
    /\ Len(Found) >= 2
    /\ Ran.best[1][2] > Ran.best[2][2]

\* A search whose stride does not divide the number of rows: more candidates
\* than r * n.
SampledUnevenly ==
    /\ Sampling
    /\ Stride = 2
    /\ Len(Before.records) = 5
    /\ Len(Ran.indices) = 3

====
